---- MODULE Spec2Model ----
(***************************************************************************)
(* Model of Score/compare_with_ground_truth.py: the matching of LLM        *)
(* findings against the ground truth (compare) and the invocations of it.  *)
(*                                                                         *)
(* A finding and a ground-truth entry are tuples <<contract, bug_type,     *)
(* line>>.  ground_truth is a Python set: compare iterates it twice (lines *)
(* 62 and 92) in the iteration order the runtime gives that set, which     *)
(* depends on the hash seed and the insertion history.  The model draws    *)
(* that order (gt_iter) at each invocation.                                *)
(*                                                                         *)
(* Spec is one invocation, as in main, on findings and ground truth of     *)
(* several (contract, bug_type) keys.  SpecRepeat is two invocations in    *)
(* sequence on the same findings and the same ground-truth set of one key, *)
(* with the larger line range that the tolerance window needs.             *)
(***************************************************************************)
EXTENDS Integers, Sequences, FiniteSets, TLC

VARIABLES llm_findings, ground_truth, frame, calls,
          counts, metrics, report,
          demjson, text, parsed, recovered,
          raw_findings, enriched_findings,
          csv_rows, gt, runs, all_findings, final_findings, api, passes

(* compute_metrics and generate_metrics_by_bug_type: arguments and results *)
metricVars == <<counts, metrics, report>>
(* extract_json_from_text: the module's _demjson, the argument, the value
   returned, and the values returned by earlier calls *)
parseVars == <<demjson, text, parsed, recovered>>
(* evaluate_contracts: the findings of one contract before and after
   normalisation *)
normVars == <<raw_findings, enriched_findings>>

(* load_ground_truth: the rows of the CSV file and the value returned *)
loadVars == <<csv_rows, gt>>
(* two invocations of compare running side by side *)
runVars == <<runs>>
(* llama3 multi_pass_analysis: the findings collected by the passes and the
   list left by the deduplication *)
dedupVars == <<all_findings, final_findings>>
(* call_ollama_api of the deepseek evaluator, and the focused passes of the
   llama3 multi_pass_analysis *)
callVars == <<api, passes>>
pipelineVars == <<loadVars, runVars, dedupVars, callVars>>

vars == <<llm_findings, ground_truth, frame, calls, metricVars, parseVars, normVars,
          pipelineVars>>

(* ------------------------------ bounds --------------------------------- *)
MaxLine == 3
MaxTol == 1
MaxFindings == 2
MaxTruth == 3
MaxKeyLine == 1
MaxKeyTruth == 2

Contracts == {"c1", "c2"}
BugTypes == {"Re-entrancy", "TOD"}

Entries == Contracts \X BugTypes \X (1..MaxKeyLine)
RepeatEntries == {"c1"} \X {"TOD"} \X (1..MaxLine)

SeqsUpTo(S, n) == UNION {[1..k -> S] : k \in 0..n}
SubsetsUpTo(S, n) == {T \in SUBSET S : Cardinality(T) <= n}

(* the orders in which a set can be iterated: every enumeration of it *)
IterOrders(S) ==
  {s \in [1..Cardinality(S) -> S] :
      \A i, j \in 1..Cardinality(S) : i # j => s[i] # s[j]}

(* --------------------------- compare: helpers -------------------------- *)
Abs(x) == IF x < 0 THEN -x ELSE x

KeyOfContractOnly(e) == <<e[1], "*">>
(* the (contract, bug_type) key of lines 63 and 70 *)
KeyOf(e) == <<e[1], e[2]>>

EmptyDict == [k \in {} |-> <<>>]

(* gt_by_key.get(key, []) of line 70 *)
DictGet(d, k) == IF k \in DOMAIN d THEN d[k] ELSE <<>>

(* lines 61-63: gt_by_key[(c, b)].append(l) for every entry in iteration order *)
RECURSIVE GroupLoop(_, _, _)
GroupLoop(iter, i, d) ==
  IF i > Len(iter) THEN d
  ELSE LET k == KeyOf(iter[i])
           d2 == [x \in (DOMAIN d) \cup {k} |->
                    IF x = k THEN Append(DictGet(d, k), iter[i][3]) ELSE d[x]]
       IN  GroupLoop(iter, i + 1, d2)

ScanBucketExact(bucket, j, ln, tol) ==
  LET hits == {n \in DOMAIN bucket : n >= j /\ Abs(bucket[n] - ln) = tol}
  IN  IF hits = {} THEN 0 ELSE CHOOSE n \in hits : \A m \in hits : n <= m
(* lines 70-71, 81: the index of the first bucket line within tolerance, 0 if none *)
RECURSIVE ScanBucket(_, _, _, _)
ScanBucket(bucket, j, ln, tol) ==
  IF j > Len(bucket) THEN 0
  ELSE IF Abs(bucket[j] - ln) <= tol THEN j
  ELSE ScanBucket(bucket, j + 1, ln, tol)

TPRecordTruthMinusLine(contract, bug_type, ln, truth_ln) ==
  [contract |-> contract, bug_type |-> bug_type, llm_line |-> ln,
   truth_line |-> truth_ln, diff |-> truth_ln - ln]
(* lines 72-78 *)
TPRecord(contract, bug_type, ln, truth_ln) ==
  [contract |-> contract, bug_type |-> bug_type, llm_line |-> ln,
   truth_line |-> truth_ln, diff |-> ln - truth_ln]

PosRecord(contract, bug_type, ln) ==
  [contract |-> contract, bug_type |-> bug_type, line |-> ln]

(* ----------------------- compare: the steps of a call ------------------ *)
IdleFrame ==
  [pc |-> "idle", line_tolerance |-> 0, gt_iter |-> <<>>, gt_by_key |-> EmptyDict,
   gt_matched |-> {}, tp |-> <<>>, fp |-> <<>>, fn |-> <<>>, i |-> 0]

EntryFrameKeepTP(tol, iter, history) ==
  [pc |-> "group", line_tolerance |-> tol, gt_iter |-> iter, gt_by_key |-> EmptyDict,
   gt_matched |-> {},
   tp |-> IF history = <<>> THEN <<>> ELSE history[Len(history)].TP,
   fp |-> <<>>, fn |-> <<>>, i |-> 0]
(* lines 55-58: a call starts with fresh gt_matched, tp and fp, whatever the
   calls before it (history) returned *)
EntryFrame(tol, iter, history) ==
  [pc |-> "group", line_tolerance |-> tol, gt_iter |-> iter, gt_by_key |-> EmptyDict,
   gt_matched |-> {}, tp |-> <<>>, fp |-> <<>>, fn |-> <<>>, i |-> 0]

(* lines 61-63 *)
GroupStep(f) ==
  [f EXCEPT !.gt_by_key = GroupLoop(f.gt_iter, 1, EmptyDict), !.pc = "match", !.i = 1]

MatchStepSkipConsumed(f, finding) ==
  LET contract == finding[1]
      bug_type == finding[2]
      ln == finding[3]
      bucket == DictGet(f.gt_by_key, KeyOf(finding))
      hits == {n \in DOMAIN bucket :
                 /\ Abs(bucket[n] - ln) <= f.line_tolerance
                 /\ <<contract, bug_type, bucket[n]>> \notin f.gt_matched}
      j == IF hits = {} THEN 0 ELSE CHOOSE n \in hits : \A m \in hits : n <= m
  IN  IF j # 0
      THEN [f EXCEPT !.tp = Append(@, TPRecord(contract, bug_type, ln, bucket[j])),
                     !.gt_matched = @ \cup {<<contract, bug_type, bucket[j]>>},
                     !.i = @ + 1]
      ELSE [f EXCEPT !.fp = Append(@, PosRecord(contract, bug_type, ln)),
                     !.i = @ + 1]
(* lines 66-88: one iteration of the loop over llm_findings *)
MatchStep(f, finding) ==
  LET contract == finding[1]
      bug_type == finding[2]
      ln == finding[3]
      bucket == DictGet(f.gt_by_key, KeyOf(finding))
      j == ScanBucket(bucket, 1, ln, f.line_tolerance)
  IN  IF j # 0
      THEN [f EXCEPT !.tp = Append(@, TPRecord(contract, bug_type, ln, bucket[j])),
                     !.gt_matched = @ \cup {<<contract, bug_type, bucket[j]>>},
                     !.i = @ + 1]
      ELSE [f EXCEPT !.fp = Append(@, PosRecord(contract, bug_type, ln)),
                     !.i = @ + 1]

(* lines 91-98: the loop over ground_truth, in the same iteration order *)
RECURSIVE FnLoop(_, _, _, _)
FnLoop(iter, i, matched, fn) ==
  IF i > Len(iter) THEN fn
  ELSE IF iter[i] \notin matched
       THEN FnLoop(iter, i + 1, matched,
                   Append(fn, PosRecord(iter[i][1], iter[i][2], iter[i][3])))
       ELSE FnLoop(iter, i + 1, matched, fn)

FalseNegativesStepAll(f) ==
  [f EXCEPT !.fn = FnLoop(f.gt_iter, 1, {}, <<>>), !.pc = "return"]
FalseNegativesStepSeenKeys(f) ==
  LET seen == {KeyOf(llm_findings[n]) : n \in DOMAIN llm_findings}
      skip == {e \in ground_truth : KeyOf(e) \notin seen}
  IN  [f EXCEPT !.fn = FnLoop(f.gt_iter, 1, f.gt_matched \cup skip, <<>>),
                !.pc = "return"]
(* lines 91-98 *)
FalseNegativesStep(f) ==
  [f EXCEPT !.fn = FnLoop(f.gt_iter, 1, f.gt_matched, <<>>), !.pc = "return"]

(* line 100: the value returned, kept with the arguments of the call *)
CallRecord(f) ==
  [line_tolerance |-> f.line_tolerance, gt_iter |-> f.gt_iter,
   TP |-> f.tp, FP |-> f.fp, FN |-> f.fn]

(* ------------------------------- actions ------------------------------- *)
(* the parts of the state a specification does not use *)
NoCounts == [tp |-> 0, fp |-> 0, fn |-> 0]
NoMetrics == counts = NoCounts /\ metrics = <<>> /\ report = <<>>
NoParse == demjson = FALSE /\ text = <<>> /\ parsed = <<>> /\ recovered = <<>>
NoNormalize == raw_findings = <<>> /\ enriched_findings = <<>>
NoCompare ==
  llm_findings = <<>> /\ ground_truth = {} /\ frame = IdleFrame /\ calls = <<>>
IdleApi ==
  [pc |-> "idle", prompt |-> "", retries |-> 0, attempt |-> 0, trace |-> <<>>,
   result |-> <<>>]
IdlePasses ==
  [pc |-> "idle", responses |-> <<>>, i |-> 0, all_findings |-> <<>>,
   executed |-> <<>>]
NoLoad == csv_rows = <<>> /\ gt = <<>>
NoRuns == runs = <<>>
NoDedup == all_findings = <<>> /\ final_findings = <<>>
NoCalls == api = IdleApi /\ passes = IdlePasses
NoPipeline == NoLoad /\ NoRuns /\ NoDedup /\ NoCalls

Init ==
  /\ llm_findings \in SeqsUpTo(Entries, MaxFindings)
  /\ ground_truth \in SubsetsUpTo(Entries, MaxKeyTruth)
  /\ frame = IdleFrame
  /\ calls = <<>>
  /\ NoMetrics /\ NoParse /\ NoNormalize /\ NoPipeline

InitRepeat ==
  /\ llm_findings \in SeqsUpTo(RepeatEntries, MaxFindings)
  /\ ground_truth \in SubsetsUpTo(RepeatEntries, MaxTruth)
  /\ frame = IdleFrame
  /\ calls = <<>>
  /\ NoMetrics /\ NoParse /\ NoNormalize /\ NoPipeline

(* the call of compare that follows n returned calls *)
CompareEntry(n) ==
  /\ frame.pc = "idle"
  /\ Len(calls) = n
  /\ \E tol \in 0..MaxTol, iter \in IterOrders(ground_truth) :
       frame' = EntryFrame(tol, iter, calls)
  /\ UNCHANGED <<llm_findings, ground_truth, calls, metricVars, parseVars, normVars, pipelineVars>>

Group ==
  /\ frame.pc = "group"
  /\ frame' = GroupStep(frame)
  /\ UNCHANGED <<llm_findings, ground_truth, calls, metricVars, parseVars, normVars, pipelineVars>>

MatchFinding ==
  /\ frame.pc = "match"
  /\ frame.i <= Len(llm_findings)
  /\ frame' = MatchStep(frame, llm_findings[frame.i])
  /\ UNCHANGED <<llm_findings, ground_truth, calls, metricVars, parseVars, normVars, pipelineVars>>

FalseNegatives ==
  /\ frame.pc = "match"
  /\ frame.i > Len(llm_findings)
  /\ frame' = FalseNegativesStep(frame)
  /\ UNCHANGED <<llm_findings, ground_truth, calls, metricVars, parseVars, normVars, pipelineVars>>

Return ==
  /\ frame.pc = "return"
  /\ calls' = Append(calls, CallRecord(frame))
  /\ frame' = IdleFrame
  /\ UNCHANGED <<llm_findings, ground_truth, metricVars, parseVars, normVars, pipelineVars>>

Compare == CompareEntry(0)
CompareAgain == CompareEntry(1)

Next == Compare \/ Group \/ MatchFinding \/ FalseNegatives \/ Return
NextRepeat == Compare \/ CompareAgain \/ Group \/ MatchFinding \/ FalseNegatives \/ Return

Spec == Init /\ [][Next]_vars
SpecRepeat == InitRepeat /\ [][NextRepeat]_vars

(* ------------- main: the tolerance handed to compare ------------------- *)
(* lines 140-145 and 175: --tolerance is parsed with type=int and handed to
   compare as it is; compare (lines 55-58) starts its work without looking at
   its sign *)
Tolerances == (-1)..MaxTol

CompareAnyTolerance ==
  /\ frame.pc = "idle"
  /\ calls = <<>>
  /\ \E tol \in Tolerances, iter \in IterOrders(ground_truth) :
       frame' = EntryFrame(tol, iter, calls)
  /\ UNCHANGED <<llm_findings, ground_truth, calls, metricVars, parseVars, normVars, pipelineVars>>

NextAnyTolerance ==
  CompareAnyTolerance \/ Group \/ MatchFinding \/ FalseNegatives \/ Return

SpecAnyTolerance == Init /\ [][NextAnyTolerance]_vars

(* ------------------------- compute_metrics ----------------------------- *)
MaxCount == 3

(* A quotient of two counts is kept exact, as <<numerator, denominator>> with
   denominator > 0; a rounded score is a whole number of ten-thousandths
   (round(x, 4) * 10^4). *)
Scale == 10000
Zero == <<0, 1>>
IsPositive(q) == q[1] > 0
Plus(p, q) == <<p[1] * q[2] + q[1] * p[2], p[2] * q[2]>>
Times(p, q) == <<p[1] * q[1], p[2] * q[2]>>
(* p / q for q > 0 *)
Over(p, q) == <<p[1] * q[2], p[2] * q[1]>>

(* lines 120-122, round(x, 4): the nearest multiple of 10^-4, a tie going to the even one *)
Round4(q) ==
  LET x == q[1] * Scale
      lo == x \div q[2]
      twice == 2 * (x % q[2])
  IN  IF twice > q[2] THEN lo + 1
      ELSE IF twice < q[2] THEN lo
      ELSE IF lo % 2 = 0 THEN lo ELSE lo + 1

(* lines 104-112: tp / (tp + other) if tp + other > 0 else 0.0 *)
Ratio(tp, other) == IF tp + other > 0 THEN <<tp, tp + other>> ELSE Zero

F1WrongPrecedence(p, r) ==
  IF IsPositive(Plus(p, r)) THEN Plus(Over(Times(<<2, 1>>, Times(p, r)), p), r) ELSE Zero
(* lines 114-117: 2 * (precision * recall) / (precision + recall) if
   (precision + recall) > 0 else 0.0 *)
F1(p, r) ==
  IF IsPositive(Plus(p, r)) THEN Over(Times(<<2, 1>>, Times(p, r)), Plus(p, r)) ELSE Zero

(* lines 103-123 *)
compute_metrics(tp, fp, fn) ==
  LET precision == Ratio(tp, fp)
      recall == Ratio(tp, fn)
      f1 == F1(precision, recall)
  IN  [precision |-> Round4(precision), recall |-> Round4(recall),
       f1_score |-> Round4(f1)]

(* the counts are list lengths (lines 177-179 of main), so never negative *)
InitMetrics ==
  /\ counts \in [tp : 0..MaxCount, fp : 0..MaxCount, fn : 0..MaxCount]
  /\ metrics = <<>> /\ report = <<>>
  /\ NoCompare /\ NoParse /\ NoNormalize /\ NoPipeline

(* line 182; metrics holds the value returned, once there is one *)
ComputeMetrics ==
  /\ metrics = <<>>
  /\ metrics' = <<compute_metrics(counts.tp, counts.fp, counts.fn)>>
  /\ UNCHANGED <<llm_findings, ground_truth, frame, calls, counts, report,
                 parseVars, normVars,
                 pipelineVars>>

NextMetrics == ComputeMetrics

SpecMetrics == InitMetrics /\ [][NextMetrics]_vars

(* ------------------- generate_metrics_by_bug_type ---------------------- *)
(* line 32, sorted(bug_types.keys()): the bug types in string order *)
SortedBugTypes == <<"Re-entrancy", "TOD">>

(* lines 19-28: bug_types[b]['TP'] after the loop over tp_list (and the same
   for FP and FN); a bug type is a key once one record names it *)
CountOf(list, bug_type) ==
  Cardinality({n \in DOMAIN list : list[n].bug_type = bug_type})
BugTypeKeys(tp_list, fp_list, fn_list) ==
  {b \in BugTypes : CountOf(tp_list, b) + CountOf(fp_list, b) + CountOf(fn_list, b) > 0}

(* lines 38-40 and 58-60, then the dictionary of lines 42-51 and 62-71 *)
Row(bug_type, tp, fp, fn) ==
  LET precision == Ratio(tp, fp)
      recall == Ratio(tp, fn)
      f1 == F1(precision, recall)
  IN  [Bug_Type |-> bug_type, TP |-> tp, FP |-> fp, TN |-> 0, FN |-> fn,
       Precision |-> Round4(precision), Recall |-> Round4(recall),
       F1_Score |-> Round4(f1)]

(* lines 31-51: one row per bug type *)
BugTypeRows(tp_list, fp_list, fn_list) ==
  LET keys == BugTypeKeys(tp_list, fp_list, fn_list)
      present == SelectSeq(SortedBugTypes, LAMBDA b : b \in keys)
  IN  [k \in DOMAIN present |->
         Row(present[k], CountOf(tp_list, present[k]), CountOf(fp_list, present[k]),
             CountOf(fn_list, present[k]))]

(* sum(m[field] for m in metrics) *)
RECURSIVE SumTP(_)
SumTP(rows) == IF rows = <<>> THEN 0 ELSE Head(rows).TP + SumTP(Tail(rows))
RECURSIVE SumFP(_)
SumFP(rows) == IF rows = <<>> THEN 0 ELSE Head(rows).FP + SumFP(Tail(rows))
RECURSIVE SumFN(_)
SumFN(rows) == IF rows = <<>> THEN 0 ELSE Head(rows).FN + SumFN(Tail(rows))
RECURSIVE SumPrecision(_)
SumPrecision(rows) ==
  IF rows = <<>> THEN 0 ELSE Head(rows).Precision + SumPrecision(Tail(rows))

OverallRowAveraged(rows) ==
  [Row("Overall", SumTP(rows), SumFP(rows), SumFN(rows))
     EXCEPT !.Precision = IF rows = <<>> THEN 0 ELSE SumPrecision(rows) \div Len(rows)]
(* lines 54-71 *)
OverallRow(rows) == Row("Overall", SumTP(rows), SumFP(rows), SumFN(rows))

(* lines 10-80 *)
generate_metrics_by_bug_type(tp_list, fp_list, fn_list) ==
  LET rows == BugTypeRows(tp_list, fp_list, fn_list)
  IN  Append(rows, OverallRow(rows))

(* the comparison_data read by the script is a result compare returned *)
GenerateMetrics ==
  /\ frame.pc = "idle"
  /\ calls # <<>>
  /\ report = <<>>
  /\ report' = generate_metrics_by_bug_type(calls[1].TP, calls[1].FP, calls[1].FN)
  /\ UNCHANGED <<llm_findings, ground_truth, frame, calls, counts, metrics,
                 parseVars, normVars,
                 pipelineVars>>

NextReport ==
  Compare \/ Group \/ MatchFinding \/ FalseNegatives \/ Return \/ GenerateMetrics

SpecReport == Init /\ [][NextReport]_vars

(* ------------------- text and JSON values (helpers) -------------------- *)
(* A text is a sequence of atoms <<kind, level>>.  An atom stands for a run of
   characters: punctuation, a word, a number, a newline, a double quote, one
   of the markers.  The level of a quote, newline, marker or bad escape is the
   number of times it has been escaped with backslashes: <<"q", 0>> is ",
   <<"q", 1>> is \", <<"q", 2>> is \\\"; <<"nl", 1>> is the two characters
   \n; <<"start", 0>> is <<JSON_START>> and <<"start", 1>> is
   \u003c\u003cJSON_START\u003e\u003e; <<"badesc", 0>> is \x, which no
   decoder accepts; <<"junk", 0>> is a lone backslash.  <<"kw_start", 0>> is
   the keyword JSON_START without its angle brackets.  Spaces are left out. *)
LB == <<"{", 0>>
RB == <<"}", 0>>
LS == <<"[", 0>>
RS == <<"]", 0>>
COLON == <<":", 0>>
COMMA == <<",", 0>>
NL == <<"nl", 0>>
Q == <<"q", 0>>
START == <<"start", 0>>
END == <<"end", 0>>
NULL == <<"null", 0>>
Num(n) == <<"num", n>>
Word(w) == <<w, 0>>
Leveled == {"q", "nl", "start", "end", "badesc", "junk"}

(* A Python value is <<type, payload>>: a dict is a sequence of <<key, value>>
   pairs in insertion order, a str is a text *)
Dict(pairs) == <<"dict", pairs>>
List(items) == <<"list", items>>
Str(s) == <<"str", s>>
PyInt(n) == <<"int", n>>
PyNone == <<"None", <<>>>>
EmptyMapping == Dict(<<>>)

(* what a call does: return a value, or raise *)
Return_(v) == <<"return", v>>
Raise == <<"raise", <<>>>>
Raised(o) == o[1] = "raise"
ValueOf(o) == o[2]

RECURSIVE Concat(_)
Concat(seqs) == IF seqs = <<>> THEN <<>> ELSE Head(seqs) \o Concat(Tail(seqs))

(* the string escaping of json.dumps: a quote, a newline and every backslash
   gain a backslash; '<' and '>' are written as they are *)
EncodeAtom(a) ==
  IF a[1] \in {"q", "nl"} THEN <<a[1], a[2] + 1>>
  ELSE IF a[1] \in {"start", "end", "badesc"} /\ a[2] >= 1 THEN <<a[1], a[2] + 1>>
  ELSE IF a[1] \in {"badesc", "junk"} THEN <<a[1], a[2] + 1>>
  ELSE a
Encode(s) == [k \in DOMAIN s |-> EncodeAtom(s[k])]

(* an atom inside a JSON string literal that json.loads rejects: a raw
   newline, an invalid escape *)
BadInString(a) ==
  \/ a = NL
  \/ a = <<"badesc", 0>>
  \/ a = <<"junk", 0>>
(* the unescaping of json.loads inside a string literal *)
DecodeAtom(a) ==
  IF a[1] \in Leveled /\ a[2] >= 1 THEN <<a[1], a[2] - 1>> ELSE a

(* d[k] = v on a dict *)
RECURSIVE DictPut(_, _, _)
DictPut(pairs, k, v) ==
  IF pairs = <<>> THEN <<<<k, v>>>>
  ELSE IF Head(pairs)[1] = k THEN <<<<k, v>>>> \o Tail(pairs)
  ELSE <<Head(pairs)>> \o DictPut(Tail(pairs), k, v)
HasKey(v, k) == v[1] = "dict" /\ \E n \in DOMAIN v[2] : v[2][n][1] = k
Lookup(v, k) == v[2][CHOOSE n \in DOMAIN v[2] : v[2][n][1] = k][2]

(* ------------------------------ json.loads ----------------------------- *)
Failed == [ok |-> FALSE, value |-> PyNone, rest |-> 0]
Parsed(v, i) == [ok |-> TRUE, value |-> v, rest |-> i]

(* whitespace between tokens *)
RECURSIVE Skip(_, _)
Skip(t, i) == IF i <= Len(t) /\ t[i] = NL THEN Skip(t, i + 1) ELSE i

(* the body of a string literal, t[j] being the first atom after the quote *)
RECURSIVE StringBody(_, _, _)
StringBody(t, j, acc) ==
  IF j > Len(t) THEN Failed
  ELSE IF t[j] = Q THEN Parsed(Str(acc), j + 1)
  ELSE IF BadInString(t[j]) THEN Failed
  ELSE StringBody(t, j + 1, Append(acc, DecodeAtom(t[j])))

RECURSIVE ParseValue(_, _)
RECURSIVE ParseMembers(_, _, _)
RECURSIVE ParseItems(_, _, _)
(* "key": value pairs, t[i] being a key's opening quote *)
ParseMembers(t, i, pairs) ==
  IF i > Len(t) \/ t[i] # Q THEN Failed
  ELSE LET key == StringBody(t, i + 1, <<>>)
           c == IF key.ok THEN Skip(t, key.rest) ELSE 0
       IN  IF ~key.ok \/ c > Len(t) \/ t[c] # COLON THEN Failed
           ELSE LET val == ParseValue(t, c + 1)
                    n == IF val.ok THEN Skip(t, val.rest) ELSE 0
                    more == DictPut(pairs, key.value[2], val.value)
                IN  IF ~val.ok \/ n > Len(t) THEN Failed
                    ELSE IF t[n] = RB THEN Parsed(Dict(more), n + 1)
                    ELSE IF t[n] = COMMA THEN ParseMembers(t, Skip(t, n + 1), more)
                    ELSE Failed
ParseItems(t, i, items) ==
  LET val == ParseValue(t, i)
      n == IF val.ok THEN Skip(t, val.rest) ELSE 0
      more == Append(items, val.value)
  IN  IF ~val.ok \/ n > Len(t) THEN Failed
      ELSE IF t[n] = RS THEN Parsed(List(more), n + 1)
      ELSE IF t[n] = COMMA THEN ParseItems(t, n + 1, more)
      ELSE Failed
ParseValue(t, i0) ==
  LET i == Skip(t, i0)
  IN  IF i > Len(t) THEN Failed
      ELSE IF t[i] = LB
           THEN LET j == Skip(t, i + 1)
                IN  IF j <= Len(t) /\ t[j] = RB THEN Parsed(EmptyMapping, j + 1)
                    ELSE ParseMembers(t, j, <<>>)
      ELSE IF t[i] = LS
           THEN LET j == Skip(t, i + 1)
                IN  IF j <= Len(t) /\ t[j] = RS THEN Parsed(List(<<>>), j + 1)
                    ELSE ParseItems(t, j, <<>>)
      ELSE IF t[i] = Q THEN StringBody(t, i + 1, <<>>)
      ELSE IF t[i][1] = "num" THEN Parsed(PyInt(t[i][2]), i + 1)
      ELSE IF t[i] = NULL THEN Parsed(PyNone, i + 1)
      ELSE Failed

(* json.loads(t): the value of the one JSON document t is, or an error *)
json_loads(t) ==
  LET r == ParseValue(t, 1)
  IN  IF r.ok /\ Skip(t, r.rest) > Len(t) THEN Return_(r.value) ELSE Raise

(* ------------------------------ json.dumps ----------------------------- *)
(* json.dumps(v) and, as the evaluators write their results
   (json.dump(result, f, indent=2)), json.dumps(v, indent=2): with an indent
   every pair and item is on a line of its own *)
Break(indent) == IF indent THEN <<NL>> ELSE <<>>
RECURSIVE json_dumps(_, _)
RECURSIVE DumpPairs(_, _)
RECURSIVE DumpItems(_, _)
DumpPairs(pairs, indent) ==
  IF pairs = <<>> THEN <<>>
  ELSE <<Q>> \o Encode(Head(pairs)[1]) \o <<Q, COLON>> \o json_dumps(Head(pairs)[2], indent)
       \o (IF Len(pairs) > 1 THEN <<COMMA>> ELSE <<>>) \o Break(indent)
       \o DumpPairs(Tail(pairs), indent)
DumpItems(items, indent) ==
  IF items = <<>> THEN <<>>
  ELSE json_dumps(Head(items), indent)
       \o (IF Len(items) > 1 THEN <<COMMA>> ELSE <<>>) \o Break(indent)
       \o DumpItems(Tail(items), indent)
json_dumps(v, indent) ==
  IF v[1] = "dict"
  THEN IF v[2] = <<>> THEN <<LB, RB>>
       ELSE <<LB>> \o Break(indent) \o DumpPairs(v[2], indent) \o <<RB>>
  ELSE IF v[1] = "list"
  THEN IF v[2] = <<>> THEN <<LS, RS>>
       ELSE <<LS>> \o Break(indent) \o DumpItems(v[2], indent) \o <<RS>>
  ELSE IF v[1] = "str" THEN <<Q>> \o Encode(v[2]) \o <<Q>>
  ELSE IF v[1] = "int" THEN <<Num(v[2])>>
  ELSE <<NULL>>

(* ------------------------ demjson3 (tolerant parse) -------------------- *)
(* _demjson.decode, lines 8-11: what strict parsing accepts, and also a comma
   before a closing brace or bracket; an error on anything else *)
TrailingComma(t, i) ==
  /\ t[i] = COMMA
  /\ LET n == Skip(t, i + 1) IN n <= Len(t) /\ t[n] \in {RB, RS}
RECURSIVE DropTrailingCommas(_, _)
DropTrailingCommas(t, i) ==
  IF i > Len(t) THEN <<>>
  ELSE (IF TrailingComma(t, i) THEN <<>> ELSE <<t[i]>>) \o DropTrailingCommas(t, i + 1)
demjson_decode(t) == json_loads(DropTrailingCommas(t, 1))

(* ----------------------- extract_json_from_text ------------------------ *)
ResponseKey == <<Word("response")>>
FallThrough == <<"next", <<>>>>
(* a; b where a either falls through to b or ends the call *)
OrElse(a, b) == IF a = FallThrough THEN b ELSE a
(* try: return f  except Exception: pass *)
Try(o) == IF Raised(o) THEN FallThrough ELSE o

First(t, P(_), from) ==
  IF \E n \in from..Len(t) : P(t[n])
  THEN CHOOSE n \in from..Len(t) : P(t[n]) /\ \A m \in from..(n - 1) : ~P(t[m])
  ELSE 0
Last(t, P(_), from, to) ==
  IF \E n \in from..to : P(t[n])
  THEN CHOOSE n \in from..to : P(t[n]) /\ \A m \in (n + 1)..to : ~P(t[m])
  ELSE 0

(* text.splitlines(), without the empty lines that line 97 skips *)
RECURSIVE SplitLines(_, _, _)
SplitLines(t, i, cur) ==
  IF i > Len(t) THEN (IF cur = <<>> THEN <<>> ELSE <<cur>>)
  ELSE IF t[i] = NL
       THEN (IF cur = <<>> THEN <<>> ELSE <<cur>>) \o SplitLines(t, i + 1, <<>>)
       ELSE SplitLines(t, i + 1, Append(cur, t[i]))

(* line.find('"response"'), lines 109 and 112: the characters "response" begin
   at the quote character of any quote atom and end with an unescaped quote *)
ResponseAt(line) ==
  LET hits == {k \in 1..(Len(line) - 2) :
                 line[k][1] = "q" /\ line[k + 1] = Word("response") /\ line[k + 2] = Q}
  IN  IF hits = {} THEN 0 ELSE CHOOSE k \in hits : \A m \in hits : k <= m

(* frag.rstrip(',') *)
RECURSIVE RStripCommas(_)
RStripCommas(frag) ==
  IF frag # <<>> /\ frag[Len(frag)] = COMMA
  THEN RStripCommas(SubSeq(frag, 1, Len(frag) - 1)) ELSE frag

(* lines 119-120: frag[1:-1] when frag starts and ends with a quote character;
   cutting the quote character off an escaped quote leaves its backslash *)
StripQuotes(frag) ==
  IF Len(frag) >= 2 /\ frag[1] = Q /\ frag[Len(frag)][1] = "q"
  THEN SubSeq(frag, 2, Len(frag) - 1)
       \o (IF frag[Len(frag)] = Q THEN <<>> ELSE <<<<"junk", 0>>>>)
  ELSE frag

(* lines 101-106: the fragments a line adds as a parsed envelope *)
EnvelopeFragment(line) ==
  LET obj == IF line[1] = LB THEN json_loads(line) ELSE Raise
  IN  IF /\ ~Raised(obj)
         /\ HasKey(ValueOf(obj), ResponseKey)
         /\ Lookup(ValueOf(obj), ResponseKey)[1] = "str"
      THEN <<Lookup(ValueOf(obj), ResponseKey)[2]>>
      ELSE <<>>
(* lines 109-124: the fragments a line adds by the substring heuristic *)
HeuristicFragment(line) ==
  LET idx == ResponseAt(line)
      colon == IF idx = 0 THEN 0 ELSE First(line, LAMBDA a : a = COLON, idx)
  IN  IF colon = 0 THEN <<>>
      ELSE <<StripQuotes(RStripCommas(SubSeq(line, colon + 1, Len(line))))>>

(* lines 95-126: one iteration of the loop over the lines *)
LineFragments(line) ==
  IF EnvelopeFragment(line) # <<>> THEN EnvelopeFragment(line)
  ELSE HeuristicFragment(line)

RECURSIVE Assemble(_)
Assemble(lines) ==
  IF lines = <<>> THEN <<>> ELSE LineFragments(Head(lines)) \o Assemble(Tail(lines))

(* lines 94-129 *)
Reassembled(t) ==
  LET assembled == Assemble(SplitLines(t, 1, <<>>))
  IN  IF assembled # <<>> THEN Concat(assembled) ELSE t

(* line 134, text.encode('utf-8').decode('unicode_escape'): every backslash
   escape is resolved once; \x and a lone backslash are errors *)
UnicodeEscape(t) ==
  IF \E n \in DOMAIN t : BadInString(t[n]) /\ t[n] # NL THEN Raise
  ELSE Return_([k \in DOMAIN t |-> DecodeAtom(t[k])])
(* line 136: only < and > are replaced; a marker escaped twice keeps
   a backslash before each bracket, which leaves the keyword *)
ReplaceEscapes(t) ==
  [k \in DOMAIN t |->
     IF t[k][1] \in {"start", "end"} /\ t[k][2] = 1 THEN <<t[k][1], 0>>
     ELSE IF t[k][1] = "start" /\ t[k][2] > 1 THEN <<"kw_start", 0>>
     ELSE IF t[k][1] = "end" /\ t[k][2] > 1 THEN <<"kw_end", 0>>
     ELSE t[k]]
(* lines 132-136 *)
Unescaped(t) ==
  IF \E n \in DOMAIN t : t[n][1] \in {"start", "end"} /\ t[n][2] >= 1
  THEN IF Raised(UnicodeEscape(t)) THEN ReplaceEscapes(t) ELSE ValueOf(UnicodeEscape(t))
  ELSE t

(* try: return json.loads(candidate)
   except Exception:
       if _demjson: try: return _demjson.decode(candidate) except: pass *)
StrictThenTolerant(candidate, dj) ==
  OrElse(Try(json_loads(candidate)),
         IF dj THEN Try(demjson_decode(candidate)) ELSE FallThrough)

DirectParseUnguarded(t) == json_loads(t)
(* lines 139-142 *)
DirectParse(t) == Try(json_loads(t))

IsStartKeyword(a) == a[1] \in {"start", "kw_start"}
IsEndKeyword(a) == a[1] \in {"end", "kw_end"}

(* lines 145-155: re.search(r'<<JSON_START>>(.*?)<<JSON_END>>', text, re.S) *)
MarkerExtraction(t, dj) ==
  LET s == First(t, LAMBDA a : a = START, 1)
      e == IF s = 0 THEN 0 ELSE First(t, LAMBDA a : a = END, s + 1)
  IN  IF e = 0 THEN FallThrough
      ELSE StrictThenTolerant(SubSeq(t, s + 1, e - 1), dj)

(* lines 158-171 *)
KeywordFallback(t, dj) ==
  LET idx == First(t, IsStartKeyword, 1)
      brace_idx == IF idx = 0 THEN 0 ELSE First(t, LAMBDA a : a = LB, idx + 1)
      end_brace_idx == Last(t, IsEndKeyword, 1, Len(t))
      close == Last(t, LAMBDA a : a = RB, idx + 1, end_brace_idx - 1)
  IN  IF idx = 0 \/ end_brace_idx = 0 THEN FallThrough
      ELSE IF brace_idx # 0 /\ end_brace_idx > brace_idx
           THEN StrictThenTolerant(SubSeq(t, brace_idx, close), dj)
           ELSE FallThrough

(* lines 177-182: the index at which depth returns to 0, counting every brace *)
RECURSIVE MatchingBrace(_, _, _)
MatchingBrace(t, i, depth) ==
  IF i > Len(t) THEN 0
  ELSE IF t[i] = LB THEN MatchingBrace(t, i + 1, depth + 1)
  ELSE IF t[i] = RB
       THEN (IF depth = 1 THEN i ELSE MatchingBrace(t, i + 1, depth - 1))
  ELSE MatchingBrace(t, i + 1, depth)

(* lines 174-193 *)
BalancedBraceScan(t, dj) ==
  LET start == First(t, LAMBDA a : a = LB, 1)
      i == IF start = 0 THEN 0 ELSE MatchingBrace(t, start, 0)
  IN  IF i = 0 THEN FallThrough
      ELSE StrictThenTolerant(SubSeq(t, start, i), dj)

(* lines 196-200 *)
WholeTextTolerant(t, dj) == IF dj THEN Try(demjson_decode(t)) ELSE FallThrough

(* lines 138-202: the strategies in the order of the code, on the text that
   lines 94-136 leave *)
Strategies(t, dj) ==
  OrElse(DirectParse(t),
  OrElse(MarkerExtraction(t, dj),
  OrElse(KeywordFallback(t, dj),
  OrElse(BalancedBraceScan(t, dj),
  OrElse(WholeTextTolerant(t, dj),
         Return_(EmptyMapping))))))

(* lines 80-202; dj is the truth of the module's _demjson *)
extract_json_from_text(arg, dj) ==
  IF arg[1] # "str" \/ arg[2] = <<>> THEN Return_(EmptyMapping)
  ELSE Strategies(Unescaped(Reassembled(arg[2])), dj)

(* ------------- the texts handed to extract_json_from_text -------------- *)
MaxFragments == 2

FindingsKey == <<Word("findings")>>
Finding(n) == Dict(<<<<<<Word("line_number")>>, PyInt(n)>>>>)
SnippetFinding(snippet) ==
  Dict(<<<<<<Word("line_number")>>, PyInt(1)>>, <<<<Word("code_snippet")>>, Str(snippet)>>>>)
FindingsObject(list) == Dict(<<<<FindingsKey, List(list)>>>>)

(* JSON objects a model answers with *)
PlainObjects == {FindingsObject(<<Finding(n)>>) : n \in 1..MaxLine}
Objects ==
  PlainObjects \cup
  { FindingsObject(<<>>),
    Dict(<<<<FindingsKey, List(<<Finding(1)>>)>>, <<ResponseKey, Str(<<Word("ok")>>)>>>>),
    Dict(<<<<FindingsKey, List(<<Finding(1)>>)>>, <<ResponseKey, PyInt(1)>>>>),
    FindingsObject(<<Dict(<<<<<<Word("line_number")>>, PyInt(1)>>,
                            <<ResponseKey, Str(<<Word("ok")>>)>>>>)>>),
    FindingsObject(<<SnippetFinding(<<RB>>)>>),
    FindingsObject(<<SnippetFinding(<<LB>>)>>),
    FindingsObject(<<SnippetFinding(<<LB, Word("ok"), RB>>)>>),
    FindingsObject(<<SnippetFinding(<<Q, Word("ok"), Q>>)>>),
    FindingsObject(<<SnippetFinding(<<Word("ok"), NL, Word("ok")>>)>>),
    Dict(<<<<<<Word("ok")>>, PyInt(1)>>>>),
    EmptyMapping }
(* JSON documents that are not objects *)
Scalars == {List(<<PyInt(1)>>), PyInt(1), Str(<<Word("ok")>>), Str(FindingsKey), PyNone}

(* reasoning text and trailers: no braces, no markers *)
Prose ==
  { <<>>, <<Word("reasoning")>>, <<Word("reasoning"), NL>>,
    <<Word("reasoning"), Q, Word("response"), Q, COLON, Word("ok"), NL>> }

Marked(p, d, s) == p \o <<START>> \o d \o <<END>> \o s

(* a text sent as a stream, lines 99-106 and the comment of line 107: one
   envelope {"response": "<fragment>"} per line *)
Envelope(frag) == json_dumps(Dict(<<<<ResponseKey, Str(frag)>>>>), FALSE)
RECURSIVE Streamed(_, _)
Streamed(t, n) ==
  IF n <= 1 THEN {Envelope(t)}
  ELSE UNION {{Envelope(SubSeq(t, 1, c)) \o <<NL>> \o rest :
                  rest \in Streamed(SubSeq(t, c + 1, Len(t)), n - 1)} : c \in 0..Len(t)}
(* a stream line cut short, which is not valid JSON *)
CutEnvelope(frag) == <<Q>> \o ResponseKey \o <<Q, COLON, Q>> \o Encode(frag) \o <<Q, COMMA>>

Texts ==
  {json_dumps(v, indent) : v \in Objects \cup Scalars, indent \in BOOLEAN}
  \cup {Marked(p, json_dumps(v, FALSE), s) : p \in Prose, v \in Objects, s \in Prose}
  \cup {p \o json_dumps(v, FALSE) \o s : p \in Prose, v \in Objects, s \in Prose}
  \cup {<<Word("reasoning"), <<"start", 1>>>> \o json_dumps(v, FALSE) \o <<<<"end", 1>>>> \o s :
          v \in PlainObjects, s \in {<<>>, <<<<"badesc", 0>>>>}}
  \cup {<<<<"kw_start", 0>>>> \o json_dumps(v, FALSE) \o <<<<"kw_end", 0>>>> : v \in PlainObjects}
  \cup UNION {Streamed(Marked(<<Word("reasoning"), NL>>, json_dumps(v, FALSE), <<>>), n) :
                v \in PlainObjects, n \in 1..MaxFragments}
  \cup {Envelope(json_dumps(v, FALSE)) : v \in Objects \cup Scalars}
  \cup {CutEnvelope(<<START>>) \o <<NL>> \o CutEnvelope(json_dumps(v, FALSE) \o <<END>>) :
          v \in PlainObjects}
  \cup { <<>>, <<Word("reasoning")>>, <<LB, Q, Word("findings"), Q, COLON>>,
         <<LB, Q, Word("findings"), Q, COLON, LS, Num(1), COMMA, RS, RB>>,
         <<START, LB, Q, Word("findings"), Q, COLON, LS, RS, COMMA, RB, END>>,
         <<Word("reasoning"), RB, LB>> }

(* what a caller can hand over: a text, or by mistake another value *)
Arguments ==
  {Str(t) : t \in Texts}
  \cup {PyNone, PyInt(0), PyInt(1), List(<<>>), List(<<PyInt(1)>>), EmptyMapping}

InitRecover ==
  /\ text \in Arguments
  /\ demjson \in BOOLEAN
  /\ parsed = <<>>
  /\ recovered = <<>>
  /\ NoCompare /\ NoMetrics /\ NoNormalize /\ NoPipeline

(* findings = extract_json_from_text(response) *)
Recover ==
  /\ parsed = <<>>
  /\ parsed' = <<extract_json_from_text(text, demjson)>>
  /\ UNCHANGED <<llm_findings, ground_truth, frame, calls, metricVars, demjson, text,
                 recovered, normVars,
                 pipelineVars>>

(* the recovered object is written out as JSON and the text read again *)
Reserialize ==
  /\ parsed # <<>>
  /\ recovered = <<>>
  /\ ~Raised(parsed[1])
  /\ HasKey(ValueOf(parsed[1]), FindingsKey)
  /\ \E indent \in BOOLEAN :
       text' = Str(json_dumps(ValueOf(parsed[1]), indent))
  /\ recovered' = <<ValueOf(parsed[1])>>
  /\ parsed' = <<>>
  /\ UNCHANGED <<llm_findings, ground_truth, frame, calls, metricVars, demjson, normVars,
                 pipelineVars>>

NextRecover == Recover \/ Reserialize

SpecRecover == InitRecover /\ [][NextRecover]_vars

(* ------------------------- coerce_line_number -------------------------- *)
MaxRaw == 2

(* further Python values a JSON record can hold: a float is kept in tenths
   (<<"float", 27>> is 2.7), infinity and nan apart, a bool as 0 or 1 *)
PyFloat(tenths) == <<"float", tenths>>
PyInf == <<"inf", 1>>
PyNaN == <<"nan", 0>>
PyBool(b) == <<"bool", b>>
Minus == Word("-")
Point == Word(".")

(* float(v) on a text: [-] digits [. digit], inf or nan; ValueError otherwise *)
float_(t) ==
  LET signed == t # <<>> /\ t[1] = Minus
      u == IF signed THEN Tail(t) ELSE t
      sign == IF signed THEN -1 ELSE 1
  IN  IF Len(u) = 1 /\ u[1][1] = "num" THEN Return_(PyFloat(sign * 10 * u[1][2]))
      ELSE IF Len(u) = 3 /\ u[1][1] = "num" /\ u[2] = Point /\ u[3][1] = "num"
           THEN Return_(PyFloat(sign * (10 * u[1][2] + u[3][2])))
      ELSE IF u = <<Word("inf")>> THEN Return_(PyInf)
      ELSE IF u = <<Word("nan")>> THEN Return_(PyNaN)
      ELSE Raise

(* int(value): truncation toward zero for a float, OverflowError and
   ValueError for inf and nan, the digits of a text, TypeError for None, a
   list or a dict *)
int_(value) ==
  IF value[1] = "int" THEN Return_(value)
  ELSE IF value[1] = "bool" THEN Return_(PyInt(value[2]))
  ELSE IF value[1] = "float"
       THEN Return_(PyInt(IF value[2] >= 0 THEN value[2] \div 10
                          ELSE -((-value[2]) \div 10)))
  ELSE IF value[1] = "str"
       THEN LET t == value[2]
                signed == t # <<>> /\ t[1] = Minus
                u == IF signed THEN Tail(t) ELSE t
            IN  IF Len(u) = 1 /\ u[1][1] = "num"
                THEN Return_(PyInt((IF signed THEN -1 ELSE 1) * u[1][2]))
                ELSE Raise
  ELSE Raise

CoerceNoSignCheck(value) ==
  IF value = PyNone THEN Return_(PyNone)
  ELSE IF value[1] = "str" /\ value[2] = <<>> THEN Return_(PyNone)
  ELSE LET f == IF value[1] = "str" THEN float_(value[2]) ELSE Return_(value)
           v == IF Raised(f) THEN Raise ELSE int_(ValueOf(f))
       IN  IF Raised(v) THEN Return_(PyNone) ELSE v
(* lines 22-38 *)
coerce_line_number(value) ==
  IF value = PyNone THEN Return_(PyNone)
  ELSE IF value[1] = "str" /\ value[2] = <<>> THEN Return_(PyNone)
  ELSE LET f == IF value[1] = "str" THEN float_(value[2]) ELSE Return_(value)
           v == IF Raised(f) THEN Raise ELSE int_(ValueOf(f))
       IN  IF Raised(v) THEN Return_(PyNone)
           ELSE IF ValueOf(v)[2] <= 0 THEN Return_(PyNone)
           ELSE v

(* ------------- evaluate_contracts: the loop over the findings ---------- *)
LineKey == <<Word("line_number")>>
SnippetKey == <<Word("code_snippet")>>
ConfidenceKey == <<Word("confidence")>>
High == Str(<<Word("high")>>)
Medium == Str(<<Word("medium")>>)
Low == Str(<<Word("low")>>)
(* d.get(k, default) *)
Get(d, k, default) == IF HasKey(d, k) THEN Lookup(d, k) ELSE default

(* lines 449-477 of llm_evaluator_llama3.py; an AttributeError of .strip()
   leaves the loop and the try of line 438 *)
RECURSIVE EnrichLoop(_, _, _)
EnrichLoop(findings, i, enriched) ==
  IF i > Len(findings) THEN Return_(enriched)
  ELSE IF findings[i][1] # "dict" THEN EnrichLoop(findings, i + 1, enriched)
  ELSE LET line_num == ValueOf(coerce_line_number(Get(findings[i], LineKey, PyNone)))
           code_snippet == Get(findings[i], SnippetKey, Str(<<>>))
       IN  IF line_num = PyNone \/ line_num[2] <= 0
           THEN EnrichLoop(findings, i + 1, enriched)
           ELSE IF code_snippet[1] # "str" THEN Raise
           ELSE EnrichLoop(findings, i + 1,
                  Append(enriched, Dict(<<<<LineKey, line_num>>,
                                          <<SnippetKey, code_snippet>>,
                                          <<ConfidenceKey,
                                            Get(findings[i], ConfidenceKey, Low)>>>>)))

(* what a recovered object can hold as a line *)
RawLines ==
  {PyInt(n) : n \in (-1)..MaxLine}
  \cup {PyFloat(5), PyFloat(-5), PyFloat(27), PyInf, PyNaN, PyBool(0), PyBool(1)}
  \cup {Str(t) : t \in {<<>>, <<Num(2)>>, <<Num(2), Point, Num(0)>>, <<Num(0), Point, Num(9)>>,
                        <<Minus, Num(2)>>, <<Word("inf")>>, <<Word("nan")>>, <<Word("ok")>>,
                        <<Num(0)>>}}
  \cup {PyNone, List(<<PyInt(1)>>), EmptyMapping}
RawSnippets == {Str(<<Word("ok")>>), PyNone}
RawRecords ==
  {Dict(<<<<LineKey, ln>>, <<SnippetKey, s>>>>) : ln \in RawLines, s \in RawSnippets}
  \cup {Dict(<<<<LineKey, ln>>>>) : ln \in RawLines}
  \cup {Dict(<<<<SnippetKey, Str(<<Word("ok")>>)>>>>), PyInt(1), Str(<<Num(1)>>)}

InitNormalize ==
  /\ raw_findings \in SeqsUpTo(RawRecords, MaxRaw)
  /\ enriched_findings = <<>>
  /\ NoCompare /\ NoMetrics /\ NoParse /\ NoPipeline

(* lines 448-477: enriched_findings holds what the loop left, once it ran *)
EnrichFindings ==
  /\ enriched_findings = <<>>
  /\ enriched_findings' = <<EnrichLoop(raw_findings, 1, <<>>)>>
  /\ UNCHANGED <<llm_findings, ground_truth, frame, calls, metricVars, parseVars,
                 raw_findings,
                 pipelineVars>>

NextNormalize == EnrichFindings

SpecNormalize == InitNormalize /\ [][NextNormalize]_vars

(* ------------------------- load_ground_truth --------------------------- *)
MaxRows == 2

SP == Word(" ")

(* str.strip(): the text without its leading and trailing blanks and newlines *)
RECURSIVE strip(_)
strip(t) ==
  IF t # <<>> /\ t[1] \in {SP, NL} THEN strip(Tail(t))
  ELSE IF t # <<>> /\ t[Len(t)] \in {SP, NL} THEN strip(SubSeq(t, 1, Len(t) - 1))
  ELSE t

(* the header lines a CSV file can start with, and the cells a column holds *)
Headers ==
  {<<"contract", "bug_type", "line">>, <<"line", "contract", "bug_type">>,
   <<"contract", "bug_type">>}
CellsOf(column) ==
  IF column = "contract" THEN {<<>>, <<Word("c1")>>, <<SP, Word("c2"), SP>>}
  ELSE IF column = "bug_type" THEN {<<>>, <<Word("TOD")>>}
  ELSE {<<>>, <<Num(2)>>, <<SP, Num(1), SP>>, <<Minus, Num(2)>>, <<Num(0)>>,
        <<Num(2), Point, Num(0)>>}

(* csv.DictReader of line 12: a row maps every column of the header to its
   cell, and to None when the line of the file ends before that column *)
RowsOf(header) ==
  UNION {{[c \in {header[n] : n \in DOMAIN header} |->
             LET n == CHOOSE m \in DOMAIN header : header[m] = c
             IN  IF n <= k THEN Str(cells[n]) ELSE PyNone] :
          cells \in {s \in [1..k -> UNION {CellsOf(header[n]) : n \in DOMAIN header}] :
                       \A n \in 1..k : s[n] \in CellsOf(header[n])}} :
         k \in 1..Len(header)}

(* row.get(k, default) *)
RowGet(row, k, default) == IF k \in DOMAIN row THEN row[k] ELSE default

(* lines 15-18: int(row.get('line', '0')), 0 when int raises *)
LineOfRow(row) ==
  LET cell == RowGet(row, "line", Str(<<Num(0)>>))
      n == IF cell[1] = "str" THEN int_(Str(strip(cell[2]))) ELSE int_(cell)
  IN  IF Raised(n) THEN 0 ELSE ValueOf(n)[2]

(* lines 13-22: the loop over the rows; .strip() of a cell that is None raises
   AttributeError, which nothing catches *)
RECURSIVE LoadLoop(_, _, _)
LoadLoop(reader, i, acc) ==
  IF i > Len(reader) THEN Return_(acc)
  ELSE LET row == reader[i]
           contract == RowGet(row, "contract", Str(<<>>))
           bug_type == RowGet(row, "bug_type", Str(<<>>))
       IN  IF contract[1] # "str" THEN Raise
           ELSE IF bug_type[1] # "str" THEN Raise
           ELSE IF /\ strip(contract[2]) # <<>> /\ strip(bug_type[2]) # <<>>
                   /\ LineOfRow(row) > 0
                THEN LoadLoop(reader, i + 1,
                       Append(acc, <<strip(contract[2]), strip(bug_type[2]), LineOfRow(row)>>))
                ELSE LoadLoop(reader, i + 1, acc)

(* lines 9-23: return set(gt) *)
load_ground_truth(reader) ==
  LET o == LoadLoop(reader, 1, <<>>)
  IN  IF Raised(o) THEN Raise
      ELSE Return_({ValueOf(o)[n] : n \in DOMAIN ValueOf(o)})

InitLoad ==
  /\ \E header \in Headers : csv_rows \in SeqsUpTo(RowsOf(header), MaxRows)
  /\ gt = <<>>
  /\ NoCompare /\ NoMetrics /\ NoParse /\ NoNormalize
  /\ NoRuns /\ NoDedup /\ NoCalls

(* gt = load_ground_truth(path) *)
LoadGroundTruth ==
  /\ gt = <<>>
  /\ gt' = <<load_ground_truth(csv_rows)>>
  /\ UNCHANGED <<llm_findings, ground_truth, frame, calls, metricVars, parseVars,
                 normVars, csv_rows, runVars, dedupVars, callVars>>

NextLoad == LoadGroundTruth

SpecLoad == InitLoad /\ [][NextLoad]_vars

(* ---------------- compare: two invocations side by side ---------------- *)
MaxRunLine == 2
MaxRunFindings == 1
MaxRunTruth == 1

RunEntries == {"c1"} \X {"TOD"} \X (1..MaxRunLine)

(* an invocation: its three arguments, its locals (frame) and the value it
   returned, once it has *)
Invocations ==
  [llm_findings : SeqsUpTo(RunEntries, MaxRunFindings),
   ground_truth : SubsetsUpTo(RunEntries, MaxRunTruth),
   line_tolerance : 0..MaxTol,
   frame : {IdleFrame},
   result : {<<>>}]

InitRuns ==
  /\ runs \in [1..2 -> Invocations]
  /\ runs[1].line_tolerance = runs[2].line_tolerance
  /\ NoCompare /\ NoMetrics /\ NoParse /\ NoNormalize
  /\ NoLoad /\ NoDedup /\ NoCalls

MatchedShared(rs, k) == UNION {rs[n].frame.gt_matched : n \in DOMAIN rs}
(* line 58: gt_matched is a local of the invocation, so the loop of lines
   91-98 of invocation k reads the set built by invocation k *)
MatchedSeenBy(rs, k) == rs[k].frame.gt_matched

(* lines 55-58 *)
RunEntry(k) ==
  /\ runs[k].frame.pc = "idle"
  /\ runs[k].result = <<>>
  /\ \E iter \in IterOrders(runs[k].ground_truth) :
       runs' = [runs EXCEPT ![k].frame = EntryFrame(runs[k].line_tolerance, iter, <<>>)]

(* lines 61-63 *)
RunGroup(k) ==
  /\ runs[k].frame.pc = "group"
  /\ runs' = [runs EXCEPT ![k].frame = GroupStep(@)]

(* lines 66-88 *)
RunMatch(k) ==
  /\ runs[k].frame.pc = "match"
  /\ runs[k].frame.i <= Len(runs[k].llm_findings)
  /\ runs' = [runs EXCEPT ![k].frame = MatchStep(@, runs[k].llm_findings[@.i])]

(* lines 91-98 *)
RunFalseNegatives(k) ==
  /\ runs[k].frame.pc = "match"
  /\ runs[k].frame.i > Len(runs[k].llm_findings)
  /\ runs' = [runs EXCEPT ![k].frame =
                FalseNegativesStep([@ EXCEPT !.gt_matched = MatchedSeenBy(runs, k)])]

(* line 100: the locals end with the invocation *)
RunReturn(k) ==
  /\ runs[k].frame.pc = "return"
  /\ runs' = [runs EXCEPT ![k].result = <<CallRecord(runs[k].frame)>>,
                          ![k].frame = IdleFrame]

OtherThanRuns ==
  <<llm_findings, ground_truth, frame, calls, metricVars, parseVars, normVars,
    loadVars, dedupVars, callVars>>

InvokeCompare == (\E k \in DOMAIN runs : RunEntry(k)) /\ UNCHANGED OtherThanRuns
GroupInvocation == (\E k \in DOMAIN runs : RunGroup(k)) /\ UNCHANGED OtherThanRuns
MatchInvocation == (\E k \in DOMAIN runs : RunMatch(k)) /\ UNCHANGED OtherThanRuns
FalseNegativesInvocation ==
  (\E k \in DOMAIN runs : RunFalseNegatives(k)) /\ UNCHANGED OtherThanRuns
ReturnInvocation == (\E k \in DOMAIN runs : RunReturn(k)) /\ UNCHANGED OtherThanRuns

NextRuns ==
  \/ InvokeCompare
  \/ GroupInvocation
  \/ MatchInvocation
  \/ FalseNegativesInvocation
  \/ ReturnInvocation

SpecRuns == InitRuns /\ [][NextRuns]_vars

(* -------- llama3 multi_pass_analysis: confidence deduplication --------- *)
MaxCollected == 3

(* conf_order.get(conf, 0) of lines 363-364: looking up a list or a dict
   raises TypeError (unhashable type) *)
ConfOrder(conf) ==
  IF conf = High THEN Return_(3)
  ELSE IF conf = Medium THEN Return_(2)
  ELSE IF conf = Low THEN Return_(1)
  ELSE IF conf[1] \in {"list", "dict"} THEN Raise
  ELSE Return_(0)

(* lines 350-367: the loop over all_findings; deduplicated is a dict, which
   keeps its keys in the order of their first insertion *)
RECURSIVE DedupLoop(_, _, _)
DedupLoop(findings, i, deduplicated) ==
  IF i > Len(findings) THEN Return_(deduplicated)
  ELSE IF findings[i][1] # "dict" THEN DedupLoop(findings, i + 1, deduplicated)
  ELSE LET finding == findings[i]
           line_num == ValueOf(coerce_line_number(Get(finding, LineKey, PyNone)))
       IN  IF line_num = PyNone \/ line_num[2] <= 0
           THEN DedupLoop(findings, i + 1, deduplicated)
           ELSE IF HasKey(deduplicated, line_num)
           THEN LET existing_conf == Get(Lookup(deduplicated, line_num), ConfidenceKey, Low)
                    new_conf == Get(finding, ConfidenceKey, Low)
                IN  IF Raised(ConfOrder(new_conf)) \/ Raised(ConfOrder(existing_conf))
                    THEN Raise
                    ELSE IF ValueOf(ConfOrder(new_conf)) > ValueOf(ConfOrder(existing_conf))
                    THEN DedupLoop(findings, i + 1,
                                   Dict(DictPut(deduplicated[2], line_num, finding)))
                    ELSE DedupLoop(findings, i + 1, deduplicated)
           ELSE DedupLoop(findings, i + 1,
                          Dict(DictPut(deduplicated[2], line_num, finding)))

ValuesReversed(d) == [n \in DOMAIN d[2] |-> d[2][Len(d[2]) + 1 - n][2]]
(* line 369: list(deduplicated.values()) *)
Values(d) == [n \in DOMAIN d[2] |-> d[2][n][2]]

(* lines 349-371 *)
Deduplicate(findings) ==
  LET o == DedupLoop(findings, 1, EmptyMapping)
  IN  IF Raised(o) THEN Raise ELSE Return_(Values(ValueOf(o)))

(* what the passes collect from the recovered objects: records with a line
   and, most of the time, a confidence *)
CollectedLines == {PyInt(1), PyInt(2), Str(<<Num(1)>>), PyInt(0)}
Confidences == {High, Medium, Low, Str(<<Word("ok")>>), List(<<>>)}
Collected ==
  {Dict(<<<<LineKey, ln>>, <<ConfidenceKey, c>>>>) : ln \in CollectedLines, c \in Confidences}
  \cup {Dict(<<<<LineKey, ln>>>>) : ln \in CollectedLines}
  \cup {Dict(<<<<LineKey, PyInt(2)>>, <<SnippetKey, PyNone>>>>), Str(<<Word("ok")>>)}

(* lines 349-371: final_findings holds what the function returns, once the
   deduplication ran *)
DeduplicateFindings ==
  /\ final_findings = <<>>
  /\ final_findings' = <<Deduplicate(all_findings)>>
  /\ UNCHANGED <<llm_findings, ground_truth, frame, calls, metricVars, parseVars,
                 normVars, loadVars, runVars, all_findings, callVars>>

(* evaluate_contracts, lines 445-477: the list multi_pass_analysis returns is
   the list the normalisation loop goes through; an exception of either ends
   the contract (line 497) *)
InitFindings ==
  /\ all_findings \in SeqsUpTo(Collected, MaxCollected)
  /\ final_findings = <<>>
  /\ NoCompare /\ NoMetrics /\ NoParse /\ NoNormalize
  /\ NoLoad /\ NoRuns /\ NoCalls

EnrichDeduplicated ==
  /\ final_findings # <<>>
  /\ ~Raised(final_findings[1])
  /\ enriched_findings = <<>>
  /\ raw_findings' = ValueOf(final_findings[1])
  /\ enriched_findings' = <<EnrichLoop(ValueOf(final_findings[1]), 1, <<>>)>>
  /\ UNCHANGED <<llm_findings, ground_truth, frame, calls, metricVars, parseVars,
                 loadVars, runVars, dedupVars, callVars>>

NextFindings == DeduplicateFindings \/ EnrichDeduplicated

SpecFindings == InitFindings /\ [][NextFindings]_vars

(* ---------------- deepseek evaluator: call_ollama_api ------------------ *)
MaxRetries == 3
MAX_RETRIES == 3
RETRY_DELAY == 2

Prompts == {"reentrancy", "timestamp", "overflow"}

(* what response.json() can hold after a request that did not raise *)
Bodies ==
  {Dict(<<<<ResponseKey, Str(<<Word("ok")>>)>>>>), Dict(<<<<ResponseKey, Str(<<>>)>>>>),
   EmptyMapping, List(<<>>)}

(* the events of a call, in order *)
Failed_ == <<"failed", <<>>>>
Responded(body) == <<"responded", body>>
Slept(seconds) == <<"slept", seconds>>

(* line 279: response.json().get('response', ''); a body that is not an
   object has no get, and AttributeError is not a RequestException *)
ResponseText(body) ==
  IF body[1] = "dict" THEN Return_(Get(body, ResponseKey, Str(<<>>))) ELSE Raise

AfterFailureAlwaysSleep(a) ==
  [a EXCEPT !.pc = "sleep", !.trace = Append(@, Failed_)]
(* lines 280-286: a RequestException is followed by the delay when attempts
   are left, and by 'return None' when it was the last attempt *)
AfterFailure(a) ==
  IF a.attempt < a.retries - 1
  THEN [a EXCEPT !.pc = "sleep", !.trace = Append(@, Failed_)]
  ELSE [a EXCEPT !.pc = "done", !.trace = Append(@, Failed_),
                 !.result = <<Return_(PyNone)>>]

InitApi ==
  /\ api = IdleApi
  /\ passes = IdlePasses
  /\ NoCompare /\ NoMetrics /\ NoParse /\ NoNormalize
  /\ NoLoad /\ NoRuns /\ NoDedup

OtherThanApi ==
  <<llm_findings, ground_truth, frame, calls, metricVars, parseVars, normVars,
    loadVars, runVars, dedupVars, passes>>

(* line 260: retries defaults to MAX_RETRIES *)
CallOllamaApi ==
  /\ api.pc = "idle"
  /\ \E prompt \in Prompts, retries \in (0..MaxRetries) \cup {MAX_RETRIES} :
       api' = [api EXCEPT !.pc = "try", !.prompt = prompt, !.retries = retries]
  /\ UNCHANGED OtherThanApi

(* lines 262-286: one iteration of the loop up to its return, its delay or the
   exception that leaves the function *)
Post ==
  /\ api.pc = "try"
  /\ api.attempt < api.retries
  /\ \/ api' = AfterFailure(api)
     \/ \E body \in Bodies :
          api' = [api EXCEPT !.pc = "done", !.trace = Append(@, Responded(body)),
                             !.result = <<ResponseText(body)>>]
  /\ UNCHANGED OtherThanApi

(* line 283, and the next iteration of line 262 *)
Sleep ==
  /\ api.pc = "sleep"
  /\ api' = [api EXCEPT !.pc = "try", !.trace = Append(@, Slept(RETRY_DELAY)),
                        !.attempt = @ + 1]
  /\ UNCHANGED OtherThanApi

(* line 287: the loop ended without a return *)
ReturnNone ==
  /\ api.pc = "try"
  /\ api.attempt >= api.retries
  /\ api' = [api EXCEPT !.pc = "done", !.result = <<Return_(PyNone)>>]
  /\ UNCHANGED OtherThanApi

NextApi == CallOllamaApi \/ Post \/ Sleep \/ ReturnNone

(* a call that started runs on: requests.post has a timeout (line 275) and
   time.sleep ends *)
SpecApi ==
  InitApi /\ [][NextApi]_vars
  /\ WF_vars(Post) /\ WF_vars(Sleep) /\ WF_vars(ReturnNone)

(* ------------- llama3 multi_pass_analysis: the focused passes ---------- *)
MaxPasses == 2

(* lines 271-295: the requests of one call answer in turn with reply[1],
   reply[2], ...; a request without an answer fails. An empty text raises
   RuntimeError, which the except of line 290 does not catch *)
RECURSIVE QueryLoop(_, _, _)
QueryLoop(reply, attempt, retries) ==
  IF attempt >= retries THEN Raise
  ELSE IF attempt + 1 > Len(reply) \/ reply[attempt + 1][1] = "failed"
       THEN QueryLoop(reply, attempt + 1, retries)
       ELSE IF reply[attempt + 1][2][2] = <<>> THEN Raise
       ELSE Return_(Str(strip(reply[attempt + 1][2][2])))

(* lines 268-295; retries defaults to MAX_RETRIES, 3 in this module too *)
query_ollama(reply) == QueryLoop(reply, 0, MAX_RETRIES)

(* all_findings.extend(findings), line 337: the items of a list, the
   characters of a text, the keys of a mapping; TypeError for a value that
   cannot be iterated *)
Extension(findings) ==
  IF findings[1] = "list" THEN Return_(findings[2])
  ELSE IF findings[1] = "str"
       THEN Return_([k \in DOMAIN findings[2] |-> Str(<<findings[2][k]>>)])
  ELSE IF findings[1] = "dict"
       THEN Return_([k \in DOMAIN findings[2] |-> Str(findings[2][k][1])])
  ELSE Raise

(* lines 335-337: if parsed and isinstance(parsed, dict) *)
FindingsOf(parsed_) ==
  IF parsed_[1] = "raise" THEN Raise
  ELSE IF ValueOf(parsed_)[1] = "dict" /\ ValueOf(parsed_) # EmptyMapping
       THEN Extension(Get(ValueOf(parsed_), FindingsKey, List(<<>>)))
       ELSE Return_(<<>>)

(* lines 333-337: what the response of a pass adds to all_findings *)
ParsedFindings(llm_response, dj) ==
  IF Raised(llm_response) THEN Raise
  ELSE FindingsOf(extract_json_from_text(ValueOf(llm_response), dj))

(* lines 332-337: what a pass adds to all_findings, or the exception that
   leaves its try block *)
PassFindings(reply, dj) == ParsedFindings(query_ollama(reply), dj)

AfterPassFailureAbort(p) == [p EXCEPT !.pc = "raised"]
(* lines 345-347: the exception of a pass is printed and the loop continues *)
AfterPassFailure(p) == [p EXCEPT !.executed = Append(@, p.i), !.i = @ + 1]

(* the answers of the model to one pass: a findings object with one finding,
   bare or in the envelope of the API, and answers without a findings list *)
PassTexts ==
  UNION {{json_dumps(FindingsObject(<<Finding(n)>>), FALSE),
          Envelope(json_dumps(FindingsObject(<<Finding(n)>>), FALSE))} : n \in 1..MaxPasses}
  \cup {<<Word("reasoning")>>,
        json_dumps(Dict(<<<<FindingsKey, PyInt(1)>>>>), FALSE),
        json_dumps(Dict(<<<<FindingsKey, Str(<<Num(1)>>)>>>>), FALSE),
        json_dumps(List(<<PyInt(1)>>), FALSE)}
Replies ==
  {<<Responded(Str(t))>> : t \in PassTexts \cup {<<>>}}
  \cup {<<Failed_, Responded(Str(t))>> : t \in PassTexts}
  \cup {<<Failed_, Failed_, Failed_>>}

InitPasses ==
  /\ passes = IdlePasses
  /\ api = IdleApi
  /\ NoCompare /\ NoMetrics /\ NoParse /\ NoNormalize
  /\ NoLoad /\ NoRuns /\ NoDedup

OtherThanPasses ==
  <<llm_findings, ground_truth, frame, calls, metricVars, parseVars, normVars,
    loadVars, runVars, api>>

(* lines 298-322: a bug type with focused prompts, one reply per prompt *)
MultiPassAnalysis ==
  /\ passes.pc = "idle"
  /\ \E n \in 1..MaxPasses : \E responses \in [1..n -> Replies] :
       passes' = [passes EXCEPT !.pc = "loop", !.responses = responses, !.i = 1]
  /\ UNCHANGED <<OtherThanPasses, dedupVars>>

(* lines 323-347: one iteration of the loop over the focused prompts *)
FocusedPass ==
  /\ passes.pc = "loop"
  /\ passes.i <= Len(passes.responses)
  /\ \E findings \in {PassFindings(passes.responses[passes.i], demjson)} :
       passes' = IF Raised(findings) THEN AfterPassFailure(passes)
                 ELSE [passes EXCEPT !.all_findings = @ \o ValueOf(findings),
                                     !.executed = Append(@, passes.i),
                                     !.i = @ + 1]
  /\ UNCHANGED <<OtherThanPasses, dedupVars>>

(* lines 349-371: the deduplication of what the passes collected, and the
   return *)
ReturnFindings ==
  /\ passes.pc = "loop"
  /\ passes.i > Len(passes.responses)
  /\ passes' = [passes EXCEPT !.pc = "done"]
  /\ all_findings' = passes.all_findings
  /\ final_findings' = <<Deduplicate(passes.all_findings)>>
  /\ UNCHANGED OtherThanPasses

NextPasses == MultiPassAnalysis \/ FocusedPass \/ ReturnFindings

SpecPasses == InitPasses /\ [][NextPasses]_vars

(* ============================ properties ============================== *)

(* ---------------------- vocabulary of the properties ------------------- *)
TruthOf(t) == <<t.contract, t.bug_type, t.truth_line>>
AsRecord(e) == [contract |-> e[1], bug_type |-> e[2], line |-> e[3]]
SameKey(e, g) == e[1] = g[1] /\ e[2] = g[2]
Dist(x, y) == IF x < y THEN y - x ELSE x - y
Count(s, x) == Cardinality({n \in DOMAIN s : s[n] = x})
Returned == {calls[k] : k \in DOMAIN calls}
(* a step of the loop over llm_findings is about to be taken *)
AtFinding == frame.pc = "match" /\ frame.i <= Len(llm_findings)
(* the ground-truth entries of the finding's key within tolerance that no
   earlier finding of this call has matched *)
Unconsumed(finding) ==
  {g \in ground_truth : /\ SameKey(g, finding)
                        /\ Dist(g[3], finding[3]) <= frame.line_tolerance
                        /\ g \notin frame.gt_matched}

(* C1: matching is one-to-one: no two TP records refer to the same
   ground-truth entry, a finding adds at most one TP record, and a finding
   whose in-tolerance entries were all matched by earlier findings is
   recorded as FP. *)
C1_OneToOne ==
  [][/\ \A a, b \in DOMAIN frame'.tp :
          a # b => TruthOf(frame'.tp[a]) # TruthOf(frame'.tp[b])
     /\ Len(frame'.tp) <= Len(frame.tp) + 1
     /\ (AtFinding /\ Unconsumed(llm_findings[frame.i]) = {}) =>
          /\ frame'.tp = frame.tp
          /\ frame'.fp = Append(frame.fp, AsRecord(llm_findings[frame.i]))]_vars

(* C2: partition completeness: in every returned result len(TP) + len(FP) is
   the number of findings, and every ground-truth entry is either referenced
   by a TP record or listed (once) in FN, never both and never neither. *)
C2_PartitionComplete ==
  \A r \in Returned :
    /\ Len(r.TP) + Len(r.FP) = Len(llm_findings)
    /\ \A n \in DOMAIN r.FN :
         <<r.FN[n].contract, r.FN[n].bug_type, r.FN[n].line>> \in ground_truth
    /\ \A g \in ground_truth :
         LET inTP == \E a \in DOMAIN r.TP : TruthOf(r.TP[a]) = g
             nFN == Count(r.FN, AsRecord(g))
         IN  (inTP /\ nFN = 0) \/ (~inTP /\ nFN = 1)

C2_Witness ==
  \E r \in Returned : r.TP # <<>> /\ r.FP # <<>> /\ r.FN # <<>>

C4_ZeroToleranceExact ==
  [][(AtFinding /\ frame.line_tolerance = 0) =>
       LET c == llm_findings[frame.i]
       IN  IF c \in ground_truth /\ c \notin frame.gt_matched
           THEN /\ frame'.tp = Append(frame.tp, TPRecord(c[1], c[2], c[3], c[3]))
                /\ frame'.fp = frame.fp
           ELSE /\ frame'.tp = frame.tp
                /\ frame'.fp = Append(frame.fp, AsRecord(c))]_vars

(* C5: a finding with several unconsumed in-tolerance entries in its bucket
   is matched to the one of them that is earliest in the bucket's order. *)
C5_FirstFitAmongUnconsumed ==
  [][AtFinding =>
       LET c == llm_findings[frame.i]
           bucket == IF <<c[1], c[2]>> \in DOMAIN frame.gt_by_key
                     THEN frame.gt_by_key[<<c[1], c[2]>>] ELSE <<>>
           open == {n \in DOMAIN bucket :
                      <<c[1], c[2], bucket[n]>> \in Unconsumed(c)}
       IN  Cardinality(open) >= 2 =>
             \E n \in open :
               /\ \A m \in open : n <= m
               /\ frame'.tp = Append(frame.tp, TPRecord(c[1], c[2], c[3], bucket[n]))]_vars

(* C6: no match across keys: the ground-truth entry of every TP record has
   the contract and the bug_type of the finding that was matched to it. *)
C6_NoCrossKeyMatch ==
  \A r \in Returned : \A a \in DOMAIN r.TP :
    LET t == r.TP[a]
    IN  /\ <<t.contract, t.bug_type, t.truth_line>> \in ground_truth
        /\ \E n \in DOMAIN llm_findings :
             llm_findings[n] = <<t.contract, t.bug_type, t.llm_line>>

C6_Witness ==
  \E r \in Returned : \E a \in DOMAIN r.TP : \E g \in ground_truth :
    /\ ~SameKey(g, TruthOf(r.TP[a]))
    /\ g[3] = r.TP[a].truth_line

(* C7 as stated: two invocations with the same findings, the same
   ground-truth set and the same tolerance return identical TP, FP and FN. *)
C7_Deterministic ==
  \A r1, r2 \in Returned :
    r1.line_tolerance = r2.line_tolerance =>
      r1.TP = r2.TP /\ r1.FP = r2.FP /\ r1.FN = r2.FN

(* C7 amended: two invocations with the same findings, the same ground-truth
   set iterated in the same order and the same tolerance return identical
   TP, FP and FN. *)
C7_DeterministicGivenOrder ==
  \A a, b \in DOMAIN calls :
    (calls[a].line_tolerance = calls[b].line_tolerance
       /\ calls[a].gt_iter = calls[b].gt_iter) =>
      /\ calls[a].TP = calls[b].TP
      /\ calls[a].FP = calls[b].FP
      /\ calls[a].FN = calls[b].FN

C7_Witness ==
  \E a, b \in DOMAIN calls :
    /\ a # b
    /\ calls[a].line_tolerance = calls[b].line_tolerance
    /\ calls[a].gt_iter = calls[b].gt_iter
    /\ calls[a].TP # <<>> /\ calls[a].FP # <<>> /\ calls[a].FN # <<>>

C9_RecallDenominator ==
  \A r \in Returned : Len(r.TP) + Len(r.FN) = Cardinality(ground_truth)

(* C10: edge cases: empty ground truth gives all findings as FP and no TP, FN;
   no findings gives every entry as FN and no TP, FP; every entry of a key
   that only the ground truth has is FN; every finding of a key that only the
   findings have is FP. *)
C10_EdgeCases ==
  \A r \in Returned :
    /\ ground_truth = {} =>
         /\ r.TP = <<>> /\ r.FN = <<>>
         /\ r.FP = [n \in DOMAIN llm_findings |-> AsRecord(llm_findings[n])]
    /\ llm_findings = <<>> =>
         /\ r.TP = <<>> /\ r.FP = <<>>
         /\ Len(r.FN) = Cardinality(ground_truth)
         /\ \A g \in ground_truth : Count(r.FN, AsRecord(g)) = 1
    /\ \A g \in ground_truth :
         (\A n \in DOMAIN llm_findings : ~SameKey(llm_findings[n], g)) =>
           Count(r.FN, AsRecord(g)) = 1
    /\ \A n \in DOMAIN llm_findings :
         (\A g \in ground_truth : ~SameKey(llm_findings[n], g)) =>
           /\ Count(r.FP, AsRecord(llm_findings[n])) = Count(llm_findings, llm_findings[n])
           /\ \A a \in DOMAIN r.TP : ~SameKey(llm_findings[n], TruthOf(r.TP[a]))

C10_Witness ==
  \E r \in Returned :
    /\ r.TP # <<>>
    /\ \E g \in ground_truth :
         \A n \in DOMAIN llm_findings : ~SameKey(llm_findings[n], g)
    /\ \E n \in DOMAIN llm_findings :
         \A g \in ground_truth : ~SameKey(llm_findings[n], g)

(* C11: compare rejects a negative line_tolerance with an error: no call made
   with line_tolerance < 0 returns a result. *)
C11_NegativeToleranceRejected ==
  \A r \in Returned : r.line_tolerance >= 0

(* C12: compute_metrics returns precision, recall and f1_score within [0, 1];
   all three are 0.0 when tp = fp = fn = 0, precision is 0.0 when tp + fp = 0
   and recall is 0.0 when tp + fn = 0. *)
C12_MetricsBounded ==
  \A k \in DOMAIN metrics :
    /\ \A m \in {metrics[k].precision, metrics[k].recall, metrics[k].f1_score} :
         0 <= m /\ m <= Scale
    /\ (counts.tp + counts.fp = 0 => metrics[k].precision = 0)
    /\ (counts.tp + counts.fn = 0 => metrics[k].recall = 0)
    /\ (counts.tp = 0 /\ counts.fp = 0 /\ counts.fn = 0 =>
          metrics[k] = [precision |-> 0, recall |-> 0, f1_score |-> 0])

C12_Witness ==
  /\ metrics # <<>>
  /\ counts.tp > 0 /\ counts.fp > 0 /\ counts.fn > 0
  /\ 0 < metrics[1].f1_score /\ metrics[1].f1_score < Scale

(* C13: in the per-bug-type report the 'Overall' row's TP, FP and FN are the
   sums of the bug-type rows' counts and equal the lengths of the TP, FP and
   FN lists; its precision and recall are the pooled quotients rounded to four
   places (not an average of the rows' scores); every record is counted in
   exactly one bug-type row. *)
C13_OverallIsPooled ==
  report # <<>> =>
    LET r == calls[1]
        n == Len(report)
        overall == report[n]
        rows == SubSeq(report, 1, n - 1)
        (* score is x / (x + y) to the nearest ten-thousandth, 0 for 0 / 0 *)
        Pooled(score, x, y) ==
          IF x + y = 0 THEN score = 0
          ELSE 2 * Dist(score * (x + y), x * Scale) <= x + y
    IN  /\ overall.Bug_Type = "Overall"
        /\ overall.TP = SumTP(rows) /\ overall.TP = Len(r.TP)
        /\ overall.FP = SumFP(rows) /\ overall.FP = Len(r.FP)
        /\ overall.FN = SumFN(rows) /\ overall.FN = Len(r.FN)
        /\ Pooled(overall.Precision, overall.TP, overall.FP)
        /\ Pooled(overall.Recall, overall.TP, overall.FN)
        /\ \A list \in {r.TP, r.FP, r.FN} : \A i \in DOMAIN list :
             Cardinality({k \in DOMAIN rows : rows[k].Bug_Type = list[i].bug_type}) = 1
        /\ \A k \in DOMAIN rows :
             /\ rows[k].TP = CountOf(r.TP, rows[k].Bug_Type)
             /\ rows[k].FP = CountOf(r.FP, rows[k].Bug_Type)
             /\ rows[k].FN = CountOf(r.FN, rows[k].Bug_Type)

C13_Witness ==
  /\ Len(report) = 3
  /\ report[1].TP > 0 /\ report[1].Precision = Scale
  /\ report[2].TP = 0 /\ report[2].FN > 0
  /\ report[3].TP = report[1].TP /\ report[3].Precision = Scale

(* vocabulary of the claims about extract_json_from_text *)
IsText == text[1] = "str"
CallReturned == parsed # <<>> /\ ~Raised(parsed[1])
Result == ValueOf(parsed[1])
(* no JSON value begins anywhere in the text *)
NothingToParse ==
  \A n \in DOMAIN text[2] : text[2][n][1] \notin {"{", "[", "q", "num", "null"}

(* C14: extract_json_from_text never raises, whatever it is given; for an
   empty, None or non-string argument, and for a text in which no strategy can
   find anything to parse, it returns the empty mapping. *)
C14_NeverRaises ==
  parsed # <<>> =>
    /\ ~Raised(parsed[1])
    /\ (~IsText \/ text[2] = <<>> \/ NothingToParse => Result = EmptyMapping)

C14_Witness ==
  /\ CallReturned /\ IsText /\ demjson
  /\ \E n \in DOMAIN text[2] : text[2][n] = LB
  /\ Raised(json_loads(text[2]))
  /\ Result = EmptyMapping

(* C15: the value extract_json_from_text returns is always a mapping, never a
   list, a number, a string or null. *)
C15_AlwaysMapping ==
  CallReturned => Result[1] = "dict"

(* C16: for a text prefix + <<JSON_START>> + J + <<JSON_END>> + suffix, where
   J is a strictly valid JSON object and neither prefix nor suffix contains a
   marker, the call returns the parse of J. *)
NoMarker(t) == \A n \in DOMAIN t : t[n][1] \notin {"start", "end"}
IsObject(t) == ~Raised(json_loads(t)) /\ ValueOf(json_loads(t))[1] = "dict"
C16_MarkerDelimited ==
  CallReturned /\ IsText =>
    \A i, j \in DOMAIN text[2] :
      LET t == text[2]
          J == SubSeq(t, i + 1, j - 1)
      IN  /\ i < j /\ t[i] = START /\ t[j] = END
          /\ NoMarker(SubSeq(t, 1, i - 1)) /\ NoMarker(SubSeq(t, j + 1, Len(t)))
          /\ IsObject(J)
          => Result = ValueOf(json_loads(J))

(* C17: for loose text without braces and markers around one strictly valid
   JSON object, the call returns that object, also when string values of the
   object contain '{' or '}'. *)
IsLooseProse(t) ==
  \A n \in DOMAIN t : t[n][2] = 0 /\ t[n][1] \notin {"{", "}", "start", "end", "kw_start", "kw_end"}
C17_LooseText ==
  CallReturned /\ IsText =>
    \A i, j \in DOMAIN text[2] :
      LET t == text[2]
          J == SubSeq(t, i, j)
      IN  /\ i < j /\ t[i] = LB /\ t[j] = RB
          /\ IsLooseProse(SubSeq(t, 1, i - 1)) /\ IsLooseProse(SubSeq(t, j + 1, Len(t)))
          /\ IsObject(J)
          => Result = ValueOf(json_loads(J))

(* C18: when the whole text is one strictly valid JSON object, the call
   returns exactly the strict parse of the text, whatever the object's keys. *)
C18_WholeObject ==
  CallReturned /\ IsText /\ IsObject(text[2]) => Result = ValueOf(json_loads(text[2]))

(* C19: when the object recovered from a text is serialized to JSON and the
   serialization is given to extract_json_from_text, the object recovered has
   the same 'findings'. *)
C19_Idempotent ==
  recovered # <<>> /\ parsed # <<>> =>
    /\ CallReturned
    /\ HasKey(Result, FindingsKey)
    /\ Lookup(Result, FindingsKey) = Lookup(recovered[1], FindingsKey)

(* C20: coerce_line_number returns None or an integer greater than 0 for every
   value and never raises, and the findings kept for matching are exactly the
   records whose line coerces: each of them has a line number that is an
   integer greater than 0. *)
Coerces(record) ==
  /\ record[1] = "dict"
  /\ ValueOf(coerce_line_number(Get(record, LineKey, PyNone))) # PyNone
C20_PositiveLines ==
  /\ \A v \in RawLines \cup {raw_findings[k] : k \in DOMAIN raw_findings} :
       LET o == coerce_line_number(v)
       IN  /\ ~Raised(o)
           /\ ValueOf(o) = PyNone \/ (ValueOf(o)[1] = "int" /\ ValueOf(o)[2] > 0)
  /\ \A n \in DOMAIN enriched_findings :
       ~Raised(enriched_findings[n]) =>
         LET kept == ValueOf(enriched_findings[n])
         IN  /\ \A e \in DOMAIN kept :
                  Lookup(kept[e], LineKey)[1] = "int" /\ Lookup(kept[e], LineKey)[2] > 0
             /\ Len(kept) = Cardinality({k \in DOMAIN raw_findings : Coerces(raw_findings[k])})

C20_Witness ==
  /\ enriched_findings # <<>> /\ ~Raised(enriched_findings[1])
  /\ Len(raw_findings) = 2 /\ Len(ValueOf(enriched_findings[1])) = 1
  /\ raw_findings[1] = Dict(<<<<LineKey, Str(<<Minus, Num(2)>>)>>>>)
  /\ Lookup(raw_findings[2], LineKey) = Str(<<Num(2), Point, Num(0)>>)
  /\ Lookup(ValueOf(enriched_findings[1])[1], LineKey) = PyInt(2)

(* a raw record the normalisation loop has to keep: a mapping whose line
   coerces and whose code_snippet, when present, is a string *)
WellFormed(record) ==
  /\ Coerces(record)
  /\ Get(record, SnippetKey, Str(<<>>))[1] = "str"

(* C21: the normalisation loop of evaluate_contracts never raises on an invalid
   record (a non-mapping, a missing or non-positive line, a code_snippet that
   is not a string): it drops that record and keeps the well-formed records of
   the same contract *)
C21_InvalidDropped ==
  \A n \in DOMAIN enriched_findings :
    /\ ~Raised(enriched_findings[n])
    /\ Len(ValueOf(enriched_findings[n])) =
         Cardinality({k \in DOMAIN raw_findings : WellFormed(raw_findings[k])})

(* a row load_ground_truth has to keep: the three fields are there, contract
   and bug_type are not blank and the line is a positive integer *)
CompleteRow(row) ==
  /\ \A k \in {"contract", "bug_type", "line"} : k \in DOMAIN row /\ row[k][1] = "str"
  /\ strip(row["contract"][2]) # <<>> /\ strip(row["bug_type"][2]) # <<>>
  /\ LineOfRow(row) > 0

(* C22: load_ground_truth never raises; it returns exactly the (contract,
   bug_type, line) tuples of the rows that have the three fields and a
   positive line, and skips every other row *)
C22_SkipsBadRows ==
  \A n \in DOMAIN gt :
    /\ ~Raised(gt[n])
    /\ ValueOf(gt[n]) =
         {<<strip(csv_rows[k]["contract"][2]), strip(csv_rows[k]["bug_type"][2]),
            LineOfRow(csv_rows[k])>> :
            k \in {j \in DOMAIN csv_rows : CompleteRow(csv_rows[j])}}
    /\ \A e \in ValueOf(gt[n]) : e[1] # <<>> /\ e[2] # <<>> /\ e[3] > 0

(* the loop of lines 66-88 run to its end from frame f *)
RECURSIVE MatchAll(_, _)
MatchAll(f, findings) ==
  IF f.i > Len(findings) THEN f ELSE MatchAll(MatchStep(f, findings[f.i]), findings)

(* what compare returns when nothing else runs, for one iteration order *)
Alone(findings, iter, tol) ==
  CallRecord(FalseNegativesStep(MatchAll(GroupStep(EntryFrame(tol, iter, <<>>)), findings)))

(* C23: two invocations of compare interleaved step by step each return what
   they return when run alone, no step changes the arguments of either, and
   an invocation that returned has kept nothing *)
C23_Isolated ==
  /\ [](\A k \in DOMAIN runs :
          runs[k].result # <<>> =>
            /\ runs[k].result[1] =
                 Alone(runs[k].llm_findings, runs[k].result[1].gt_iter,
                       runs[k].line_tolerance)
            /\ runs[k].frame = IdleFrame)
  /\ [][\A k \in DOMAIN runs :
          /\ runs'[k].llm_findings = runs[k].llm_findings
          /\ runs'[k].ground_truth = runs[k].ground_truth
          /\ runs'[k].line_tolerance = runs[k].line_tolerance]_vars

(* the second invocation returned a false negative for an entry that the
   first, still inside its loops, has consumed *)
C23_Witness ==
  /\ runs # <<>>
  /\ runs[1].frame.pc = "match" /\ runs[1].frame.gt_matched # {}
  /\ runs[2].result # <<>>
  /\ \E e \in runs[1].frame.gt_matched :
       PosRecord(e[1], e[2], e[3]) \in
         {runs[2].result[1].FN[n] : n \in DOMAIN runs[2].result[1].FN}

(* C24: in every value compare returns, a TP record holds the line of a
   candidate, the line of a ground-truth entry of the same key, and
   diff = llm_line - truth_line with |diff| <= line_tolerance; an FP record
   holds the line of a candidate and an FN record the line of a ground-truth
   entry *)
C24_RecordFields ==
  \A r \in Returned :
    /\ \A n \in DOMAIN r.TP :
         LET t == r.TP[n]
         IN  /\ t.diff = t.llm_line - t.truth_line
             /\ Abs(t.diff) <= r.line_tolerance
             /\ \E k \in DOMAIN llm_findings :
                  llm_findings[k] = <<t.contract, t.bug_type, t.llm_line>>
             /\ <<t.contract, t.bug_type, t.truth_line>> \in ground_truth
    /\ \A n \in DOMAIN r.FP :
         \E k \in DOMAIN llm_findings :
           llm_findings[k] = <<r.FP[n].contract, r.FP[n].bug_type, r.FP[n].line>>
    /\ \A n \in DOMAIN r.FN :
         <<r.FN[n].contract, r.FN[n].bug_type, r.FN[n].line>> \in ground_truth
    /\ Len(r.TP) + Len(r.FP) = Len(llm_findings)

(* a call returned a TP whose candidate lies below its truth line, next to an
   FP for the other candidate *)
C24_Witness ==
  \E r \in Returned :
    /\ \E n \in DOMAIN r.TP : r.TP[n].diff = -1 /\ r.line_tolerance = 1
    /\ r.FP # <<>>

(* a line that is a streaming envelope: an object with a string 'response'
   field, or a line the 'response' substring heuristic takes a fragment from *)
IsEnvelopeLine(line) == LineFragments(line) # <<>>
LinesOf(t) == SplitLines(t, 1, <<>>)

(* C25: the text the recovery strategies work on is the concatenation, in line
   order, of the fragments when every non-empty line of the argument is a
   streaming envelope, and is the argument itself when some line is not *)
C25_ReassemblyOnlyStreams ==
  CallReturned /\ IsText /\ text[2] # <<>> =>
    LET lines == LinesOf(text[2])
    IN  /\ (lines # <<>> /\ \A n \in DOMAIN lines : IsEnvelopeLine(lines[n]))
             => Reassembled(text[2]) = Concat(Assemble(lines))
        /\ (\E n \in DOMAIN lines : ~IsEnvelopeLine(lines[n]))
             => Reassembled(text[2]) = text[2]

(* some span of the text from a '{' to a '}' is strictly valid JSON *)
HasParsableBraceSpan(t) ==
  \E i, j \in DOMAIN t :
    i < j /\ t[i] = LB /\ t[j] = RB /\ ~Raised(json_loads(SubSeq(t, i, j)))
NoMarkerOrKeyword(t) ==
  \A n \in DOMAIN t : t[n][1] \notin {"start", "end", "kw_start", "kw_end"}

(* C26: without the tolerant parser the call does not raise, and for a text
   without markers in which no span from '{' to '}' parses strictly it returns
   the empty mapping *)
C26_NoTolerantParser ==
  parsed # <<>> /\ ~demjson =>
    /\ ~Raised(parsed[1])
    /\ (IsText /\ NoMarkerOrKeyword(text[2]) /\ ~HasParsableBraceSpan(text[2])
          => Result = EmptyMapping)

(* the line a collected finding stands for, PyNone when it has none *)
LineOf(finding) ==
  IF finding[1] # "dict" THEN PyNone
  ELSE ValueOf(coerce_line_number(Get(finding, LineKey, PyNone)))
(* high > medium > low > anything else *)
Rank(finding) ==
  LET conf == Get(finding, ConfidenceKey, Low)
  IN  IF conf = High THEN 3 ELSE IF conf = Medium THEN 2 ELSE IF conf = Low THEN 1 ELSE 0
(* the finding the claim keeps for a line: the earliest of those with the
   highest confidence *)
Best(findings, ln) ==
  LET same == {k \in DOMAIN findings : LineOf(findings[k]) = ln}
      top == {k \in same : \A m \in same : Rank(findings[m]) <= Rank(findings[k])}
  IN  findings[CHOOSE k \in top : \A m \in top : k <= m]

(* C28: the deduplication returns, for every positive coerced line among the
   collected findings, exactly one finding, the earliest of those with the
   highest confidence on that line, and nothing else *)
C28_KeepsHighest ==
  \A n \in DOMAIN final_findings :
    /\ ~Raised(final_findings[n])
    /\ LET kept == ValueOf(final_findings[n])
           lines == {LineOf(all_findings[k]) : k \in DOMAIN all_findings} \ {PyNone}
       IN  /\ \A i, j \in DOMAIN kept : i # j => LineOf(kept[i]) # LineOf(kept[j])
           /\ {LineOf(kept[i]) : i \in DOMAIN kept} = lines
           /\ \A i \in DOMAIN kept : kept[i] = Best(all_findings, LineOf(kept[i]))

(* what identifies a record before and after normalisation: its coerced line
   and its confidence *)
Mark(finding) == <<LineOf(finding), Get(finding, ConfidenceKey, Low)>>
Marks(findings) == [n \in DOMAIN findings |-> Mark(findings[n])]
(* s can be obtained from t by dropping elements *)
RECURSIVE IsSubsequence(_, _)
IsSubsequence(s, t) ==
  IF s = <<>> THEN TRUE
  ELSE IF t = <<>> THEN FALSE
  ELSE IF Head(s) = Head(t) THEN IsSubsequence(Tail(s), Tail(t))
  ELSE IsSubsequence(s, Tail(t))
(* the positive coerced lines of the findings, each at its first occurrence *)
RECURSIVE FirstOccurrences(_, _)
FirstOccurrences(findings, seen) ==
  IF findings = <<>> THEN <<>>
  ELSE LET ln == LineOf(Head(findings))
       IN  IF ln = PyNone \/ ln \in seen THEN FirstOccurrences(Tail(findings), seen)
           ELSE <<ln>> \o FirstOccurrences(Tail(findings), seen \cup {ln})
Normalized == ValueOf(enriched_findings[1])
NormalizationReturned == enriched_findings # <<>> /\ ~Raised(enriched_findings[1])

(* C27 as stated: the normalised findings of a contract are the collected raw
   records with some dropped, in the order of the raw records *)
C27_OrderOfRawRecords ==
  NormalizationReturned => IsSubsequence(Marks(Normalized), Marks(all_findings))

(* C27, amended: the normalised findings hold one record per positive coerced
   line, in the order in which the lines first occur among the raw records;
   the record of a line is the earliest with the highest confidence, which can
   stand later among the raw records than the record that follows it *)
C27_OrderOfFirstOccurrence ==
  NormalizationReturned =>
    /\ [n \in DOMAIN Normalized |-> LineOf(Normalized[n])]
         = FirstOccurrences(all_findings, {})
    /\ \A n \in DOMAIN Normalized :
         Mark(Normalized[n]) = Mark(Best(all_findings, LineOf(Normalized[n])))
    /\ IsSubsequence(Marks(Normalized), Marks(ValueOf(final_findings[1])))

(* line 1 low, line 2, line 1 high: the record kept for line 1 is the third
   raw record and stands before the second *)
C27_Witness ==
  /\ NormalizationReturned
  /\ Len(all_findings) = 3 /\ Len(Normalized) = 2
  /\ Mark(all_findings[1]) = <<PyInt(1), Low>>
  /\ LineOf(all_findings[2]) = PyInt(2)
  /\ Mark(all_findings[3]) = <<PyInt(1), High>>
  /\ Mark(Normalized[1]) = <<PyInt(1), High>>
  /\ LineOf(Normalized[2]) = PyInt(2)

Events(kind) == {n \in DOMAIN api.trace : api.trace[n][1] = kind}
Requests == Events("failed") \cup Events("responded")

(* C29: call_ollama_api issues at most `retries` requests, issues none after a
   request that did not fail, returns the response text of a request answered
   with an object, waits RETRY_DELAY after a failed request only when another
   request follows, returns None without raising after `retries` failed
   requests, and every call ends *)
C29_BoundedRetry ==
  /\ [](/\ Cardinality(Requests) <= api.retries
        /\ \A n \in Events("responded") : n = Len(api.trace) /\ api.pc = "done"
        /\ \A n \in Events("slept") :
             /\ api.trace[n][2] = RETRY_DELAY
             /\ n - 1 \in Events("failed")
             /\ n = Len(api.trace) => api.pc = "try" /\ api.attempt < api.retries
             /\ n < Len(api.trace) => n + 1 \in Requests
        /\ \A n \in Events("failed") :
             n < Len(api.trace) => n + 1 \in Events("slept")
        /\ api.pc = "done" =>
             /\ api.result # <<>>
             /\ \A n \in Events("responded") :
                  api.trace[n][2][1] = "dict" =>
                    api.result[1] = Return_(Get(api.trace[n][2], ResponseKey, Str(<<>>)))
             /\ Events("responded") = {} =>
                  /\ api.result[1] = Return_(PyNone)
                  /\ Cardinality(Events("failed")) = api.retries
                  /\ Cardinality(Events("slept")) =
                       IF api.retries = 0 THEN 0 ELSE api.retries - 1)
  /\ (api.pc # "idle" ~> api.pc = "done")

(* three failed requests with a delay after the first and the second, and
   None returned *)
C29_Witness ==
  /\ api.pc = "done" /\ api.retries = MAX_RETRIES
  /\ Len(api.trace) = 5
  /\ Cardinality(Events("failed")) = 3 /\ Cardinality(Events("slept")) = 2
  /\ api.result = <<Return_(PyNone)>>

(* the findings list a pass obtains, <<>> when its query raises or its
   output has no list under 'findings' *)
ListUnderFindings(v) ==
  IF v[1] = "dict" /\ HasKey(v, FindingsKey) /\ Lookup(v, FindingsKey)[1] = "list"
  THEN Lookup(v, FindingsKey)[2] ELSE <<>>
UsableOf(llm_response) ==
  IF Raised(llm_response) THEN <<>>
  ELSE ListUnderFindings(ValueOf(extract_json_from_text(ValueOf(llm_response), demjson)))
UsableFindings(reply) == UsableOf(query_ollama(reply))

(* C30: whatever passes fail, every focused pass is executed, in order, the
   function returns, and every finding of a pass with a usable findings list
   is among the collected findings and has its line in the result *)
C30_PassesIsolated ==
  /\ passes.pc # "raised"
  /\ passes.executed = [n \in 1..Len(passes.executed) |-> n]
  /\ passes.pc = "done" =>
       /\ Len(passes.executed) = Len(passes.responses)
       /\ final_findings # <<>> /\ ~Raised(final_findings[1])
       /\ \A n \in DOMAIN passes.responses :
            \A usable \in {UsableFindings(passes.responses[n])} :
              \A k \in DOMAIN usable :
                /\ \E m \in DOMAIN all_findings : all_findings[m] = usable[k]
                /\ \E m \in DOMAIN ValueOf(final_findings[1]) :
                     LineOf(ValueOf(final_findings[1])[m]) = LineOf(usable[k])

(* the first pass failed after three failed requests, the second found line 2,
   and line 2 is in the result *)
C30_Witness ==
  /\ passes.pc = "done" /\ Len(passes.responses) = 2
  /\ passes.responses[1] = <<Failed_, Failed_, Failed_>>
  /\ UsableFindings(passes.responses[2]) = <<Finding(2)>>
  /\ final_findings = <<Return_(<<Finding(2)>>)>>

====
